---- MODULE Spec2Model ----
(***************************************************************************)
(* Model of devkit: the structural JSON diff engine                        *)
(* (src/src/utils/jsonDiff.ts), the viewer that consumes its output        *)
(* (src/src/components/DiffViewer.tsx), the Compare page, the key and logo *)
(* handlers of the application shell (src/src/App.tsx), the formatter      *)
(* page (src/src/pages/JsonFormatterPage.tsx), the scroll handlers of the  *)
(* two diff views and the two games (src/src/pages/SecretGamePage.tsx,     *)
(* src/src/pages/BugRunnerPage.tsx).  Each part has its own specification  *)
(* over the one set of variables; the parts a specification does not act   *)
(* on stay in their initial state.                                         *)
(*                                                                         *)
(* A JSON value is a record of one shape, so that any two values can be    *)
(* compared:                                                               *)
(*   kind  : "primitive" | "array" | "object" | "undefined"               *)
(*   ptype : the typeof of a primitive ("number", "string", "boolean",     *)
(*           "null"), "" otherwise                                         *)
(*   text  : the primitive's content, "" otherwise                         *)
(*   keys  : Object.keys of an object, in that order, <<>> otherwise       *)
(*   items : the elements of an array, or the values of an object in the   *)
(*           order of keys, <<>> otherwise                                 *)
(* The value an inherited property of Object.prototype yields (see Get) is  *)
(* of kind "function".  Strings of the program (keys, paths) are strings.   *)
(***************************************************************************)
EXTENDS Integers, Sequences, FiniteSets, TLC

\* Every JSON value of at most MaxSize rendered lines (sizeOf) is an input.
MaxSize == 4

----------------------------------------------------------------------------
(* JSON values: src/src/types/diff.ts *)

Prim(t, s) == [kind |-> "primitive", ptype |-> t, text |-> s, keys |-> <<>>, items |-> <<>>]
Num(s) == Prim("number", s)
Str(s) == Prim("string", s)
Arr(xs) == [kind |-> "array", ptype |-> "", text |-> "", keys |-> <<>>, items |-> xs]
Obj(ks, xs) == [kind |-> "object", ptype |-> "", text |-> "", keys |-> ks, items |-> xs]
undefined == [kind |-> "undefined", ptype |-> "", text |-> "", keys |-> <<>>, items |-> <<>>]

\* The optional fields of a DiffNode: key?: string is <<k>> when set and
\* NoKey when not; arrayIndex?: number and bracketType?: 'object' | 'array'
\* are NoIndex and NoBracket when not set.
NoKey == <<>>
NoIndex == -1
NoBracket == "undefined"

\* DiffType (UNCHANGED is a reserved word of TLA+, hence the capitalisation)
Added == "added"
Removed == "removed"
Modified == "modified"
Unchanged == "unchanged"
Spacer == "spacer"

----------------------------------------------------------------------------
(* Helpers on sequences and strings *)

RECURSIVE Flatten(_)
Flatten(ss) == IF ss = <<>> THEN <<>> ELSE Head(ss) \o Flatten(Tail(ss))

Range(s) == {s[i] : i \in 1..Len(s)}

Max(a, b) == IF a >= b THEN a ELSE b

Digit(d) == CASE d = 0 -> "0" [] d = 1 -> "1" [] d = 2 -> "2" [] d = 3 -> "3"
              [] d = 4 -> "4" [] d = 5 -> "5" [] d = 6 -> "6" [] d = 7 -> "7"
              [] d = 8 -> "8" [] d = 9 -> "9"

\* String(i) of a non-negative integer, as the template literal `[${i}]` prints it
RECURSIVE NumberToString(_)
NumberToString(i) == IF i < 10 THEN Digit(i)
                     ELSE NumberToString(i \div 10) \o Digit(i % 10)

\* Names every object inherits from Object.prototype with a function as value
\* (there are more: hasOwnProperty, isPrototypeOf, toLocaleString, ...)
InheritedKeys == {"constructor", "toString", "valueOf"}
Function(name) == [kind |-> "function", ptype |-> "function", text |-> name,
                   keys |-> <<>>, items |-> <<>>]

\* obj[k], the property access of JavaScript on an object JSON.parse built:
\* the value of the own property k; without one, the property of
\* Object.prototype of that name, a function; undefined when there is neither.
Get(obj, k) == IF \E i \in 1..Len(obj.keys) : obj.keys[i] = k
               THEN obj.items[CHOOSE i \in 1..Len(obj.keys) : obj.keys[i] = k]
               ELSE IF k \in InheritedKeys THEN Function(k)
               ELSE undefined

\* Mutant of At: the index taken as 1-based
AtOneBased(arr, i) == IF i + 1 < Len(arr.items) THEN arr.items[i + 2] ELSE undefined

\* arr[i] with a 0-based index: undefined past the end
At(arr, i) == IF i < Len(arr.items) THEN arr.items[i + 1] ELSE undefined

----------------------------------------------------------------------------
(* The diff engine: src/src/utils/jsonDiff.ts *)

\* A DiffNode.  The optional booleans isArrayItem and isClosingBracket are
\* FALSE when the code leaves them out: every reader tests them for truth only.
Node(type, key, path, leftValue, rightValue, indent, isCollapsible, isArrayItem, arrayIndex, isClosingBracket, bracketType) ==
  [type |-> type, key |-> key, path |-> path, leftValue |-> leftValue,
   rightValue |-> rightValue, indent |-> indent, isCollapsible |-> isCollapsible,
   isArrayItem |-> isArrayItem, arrayIndex |-> arrayIndex,
   isClosingBracket |-> isClosingBracket, bracketType |-> bracketType]

\* Mutant of getValueType: the isArray test left out
getValueTypeNoArray(value) == IF value.kind = "object" THEN "object" ELSE "primitive"

\* Mutant of getValueType: typeof for what is neither object nor array
getValueTypeTypeof(value) == CASE value.kind = "object" -> "object"
                               [] value.kind = "array" -> "array"
                               [] OTHER -> value.ptype

getValueType(value) == CASE value.kind = "object" -> "object"
                         [] value.kind = "array" -> "array"
                         [] OTHER -> "primitive"

getAlignedKeys(leftObj, rightObj) ==
  leftObj.keys \o SelectSeq(rightObj.keys, LAMBDA k : k \notin Range(leftObj.keys))

\* lodash isEqual: primitives by type and value, arrays element by element,
\* objects by key set and value under each key; a function equals no JSON
\* value.
RECURSIVE isEqual(_, _)
isEqual(a, b) ==
  CASE a.kind # b.kind -> FALSE
    [] a.kind = "array" ->
         /\ Len(a.items) = Len(b.items)
         /\ \A i \in 1..Len(a.items) : isEqual(a.items[i], b.items[i])
    [] a.kind = "object" ->
         /\ Len(a.keys) = Len(b.keys)
         /\ Range(a.keys) = Range(b.keys)
         /\ \A i \in 1..Len(a.keys) : isEqual(a.items[i], Get(b, a.keys[i]))
    [] OTHER -> a = b

\* `${path}.${k}` under a non-empty path, k itself under the empty path
keyPath(path, k) == IF path # "" THEN path \o "." \o k ELSE k

\* `${path}[${i}]`
indexPath(path, i) == path \o "[" \o NumberToString(i) \o "]"

createSpacer(indent) ==
  Node(Spacer, NoKey, "", undefined, undefined, indent, FALSE, FALSE, NoIndex,
       FALSE, NoBracket)

\* The value an opening or closing bracket node of createNodesForValue carries
bracketLeftValue(diffType, marker) == IF diffType = Removed THEN Str(marker) ELSE undefined
bracketRightValue(diffType, marker) == IF diffType = Added THEN Str(marker) ELSE undefined

\* Mutant of leafLeftValue: the value on the left whatever the classification
leafLeftValueAlways(diffType, value) == value

\* The values a primitive's node of createNodesForValue carries
leafLeftValue(diffType, value) ==
  IF diffType \in {Removed, Modified, Unchanged} THEN value ELSE undefined
leafRightValue(diffType, value) ==
  IF diffType \in {Added, Modified, Unchanged} THEN value ELSE undefined

RECURSIVE createNodesForValue(_, _, _, _, _, _, _)
createNodesForValue(value, path, indent, key, diffType, isArrayItem, arrayIndex) ==
  LET valueType == getValueType(value) IN
  CASE valueType = "object" ->
         <<Node(diffType, key, path, bracketLeftValue(diffType, "{"),
                bracketRightValue(diffType, "{"), indent, TRUE, isArrayItem,
                arrayIndex, FALSE, NoBracket)>>
         \o Flatten([i \in 1..Len(value.keys) |->
               createNodesForValue(value.items[i], keyPath(path, value.keys[i]),
                                   indent + 1, <<value.keys[i]>>, diffType, FALSE, NoIndex)])
         \o <<Node(diffType, NoKey, path, bracketLeftValue(diffType, "}"),
                   bracketRightValue(diffType, "}"), indent, FALSE, FALSE,
                   NoIndex, TRUE, "object")>>
    [] valueType = "array" ->
         <<Node(diffType, key, path, bracketLeftValue(diffType, "["),
                bracketRightValue(diffType, "["), indent, TRUE, isArrayItem,
                arrayIndex, FALSE, NoBracket)>>
         \o Flatten([i \in 1..Len(value.items) |->
               createNodesForValue(value.items[i], indexPath(path, i - 1),
                                   indent + 1, NoKey, diffType, TRUE, i - 1)])
         \o <<Node(diffType, NoKey, path, bracketLeftValue(diffType, "]"),
                   bracketRightValue(diffType, "]"), indent, FALSE, FALSE,
                   NoIndex, TRUE, "array")>>
    [] OTHER ->
         <<Node(diffType, key, path, leafLeftValue(diffType, value),
                leafRightValue(diffType, value), indent, FALSE, isArrayItem,
                arrayIndex, FALSE, NoBracket)>>

\* (a variant whose loop stops one short)
spacersOneShort(n, indent) == [i \in 1..(n - 1) |-> createSpacer(indent)]
\* createSpacer(indent), n times
spacers(n, indent) == [i \in 1..n |-> createSpacer(indent)]

\* Mutant of padTo: no padding
padToNothing(list, maxLen, indent) == list

\* Mutant of padTo: the Spacer nodes put in front (unshift for push)
padToFront(list, maxLen, indent) == spacers(maxLen - Len(list), indent) \o list

\* while (list.length < maxLen) list.push(createSpacer(indent))
padTo(list, maxLen, indent) == list \o spacers(maxLen - Len(list), indent)

\* The shared opening and closing nodes of two objects or two arrays
openNode(key, path, marker, indent, isArrayItem, arrayIndex) ==
  Node(Unchanged, key, path, Str(marker), Str(marker), indent, TRUE, isArrayItem,
       arrayIndex, FALSE, NoBracket)
\* Mutant of closeNode: the closing bracket at the indent of the children
closeNodeAtChildIndent(path, marker, indent, bracketType) ==
  Node(Unchanged, NoKey, path, Str(marker), Str(marker), indent + 1, FALSE, FALSE,
       NoIndex, TRUE, bracketType)
closeNode(path, marker, indent, bracketType) ==
  Node(Unchanged, NoKey, path, Str(marker), Str(marker), indent, FALSE, FALSE,
       NoIndex, TRUE, bracketType)

\* Mutant of modifiedLeftNode: classified Removed
modifiedLeftNodeRemoved(leftValue, key, path, indent, isArrayItem, arrayIndex) ==
  Node(Removed, key, path, leftValue, undefined, indent, FALSE, isArrayItem,
       arrayIndex, FALSE, NoBracket)

\* Mutant of modifiedRightNode: classified Added
modifiedRightNodeAdded(rightValue, key, path, indent, isArrayItem, arrayIndex) ==
  Node(Added, key, path, undefined, rightValue, indent, FALSE, isArrayItem,
       arrayIndex, FALSE, NoBracket)

\* The nodes of two primitives that differ
modifiedLeftNode(leftValue, key, path, indent, isArrayItem, arrayIndex) ==
  Node(Modified, key, path, leftValue, undefined, indent, FALSE, isArrayItem,
       arrayIndex, FALSE, NoBracket)
modifiedRightNode(rightValue, key, path, indent, isArrayItem, arrayIndex) ==
  Node(Modified, key, path, undefined, rightValue, indent, FALSE, isArrayItem,
       arrayIndex, FALSE, NoBracket)

RECURSIVE compareJson(_, _, _, _, _, _, _)
compareJson(leftValue, rightValue, path, indent, key, isArrayItem, arrayIndex) ==
  LET leftType == IF leftValue # undefined THEN getValueType(leftValue) ELSE "null"
      rightType == IF rightValue # undefined THEN getValueType(rightValue) ELSE "null"
  IN
  CASE leftValue # undefined /\ rightValue = undefined ->
         LET nodes == createNodesForValue(leftValue, path, indent, key, Removed,
                                          isArrayItem, arrayIndex)
         IN [leftNodes |-> nodes, rightNodes |-> spacers(Len(nodes), indent)]
    [] leftValue = undefined /\ rightValue # undefined ->
         LET nodes == createNodesForValue(rightValue, path, indent, key, Added,
                                          isArrayItem, arrayIndex)
         IN [leftNodes |-> spacers(Len(nodes), indent), rightNodes |-> nodes]
    [] leftValue = undefined /\ rightValue = undefined ->
         [leftNodes |-> <<>>, rightNodes |-> <<>>]
    [] OTHER ->
         IF isEqual(leftValue, rightValue) THEN
           LET nodes == createNodesForValue(leftValue, path, indent, key, Unchanged,
                                            isArrayItem, arrayIndex)
           IN [leftNodes |-> nodes, rightNodes |-> nodes]
         ELSE IF leftType # rightType THEN
           LET leftNodesList == createNodesForValue(leftValue, path, indent, key,
                                                    Modified, isArrayItem, arrayIndex)
               rightNodesList == createNodesForValue(rightValue, path, indent, key,
                                                     Modified, isArrayItem, arrayIndex)
               maxLen == Max(Len(leftNodesList), Len(rightNodesList))
           IN [leftNodes |-> padTo(leftNodesList, maxLen, indent),
               rightNodes |-> padTo(rightNodesList, maxLen, indent)]
         ELSE IF leftType = "object" /\ rightType = "object" THEN
           LET alignedKeys == getAlignedKeys(leftValue, rightValue)
               childResult == [i \in 1..Len(alignedKeys) |->
                  compareJson(Get(leftValue, alignedKeys[i]), Get(rightValue, alignedKeys[i]),
                              keyPath(path, alignedKeys[i]), indent + 1,
                              <<alignedKeys[i]>>, FALSE, NoIndex)]
               open == openNode(key, path, "{", indent, isArrayItem, arrayIndex)
               close == closeNode(path, "}", indent, "object")
           IN [leftNodes |-> <<open>>
                 \o Flatten([i \in 1..Len(alignedKeys) |-> childResult[i].leftNodes])
                 \o <<close>>,
               rightNodes |-> <<open>>
                 \o Flatten([i \in 1..Len(alignedKeys) |-> childResult[i].rightNodes])
                 \o <<close>>]
         ELSE IF leftType = "array" /\ rightType = "array" THEN
           LET maxLen == Max(Len(leftValue.items), Len(rightValue.items))
               childResult == [i \in 1..maxLen |->
                  compareJson(At(leftValue, i - 1), At(rightValue, i - 1),
                              indexPath(path, i - 1), indent + 1, NoKey, TRUE, i - 1)]
               open == openNode(key, path, "[", indent, isArrayItem, arrayIndex)
               close == closeNode(path, "]", indent, "array")
           IN [leftNodes |-> <<open>>
                 \o Flatten([i \in 1..maxLen |-> childResult[i].leftNodes])
                 \o <<close>>,
               rightNodes |-> <<open>>
                 \o Flatten([i \in 1..maxLen |-> childResult[i].rightNodes])
                 \o <<close>>]
         ELSE
           [leftNodes |-> <<modifiedLeftNode(leftValue, key, path, indent,
                                              isArrayItem, arrayIndex)>>,
            rightNodes |-> <<modifiedRightNode(rightValue, key, path, indent,
                                                isArrayItem, arrayIndex)>>]

----------------------------------------------------------------------------
(* The inputs: every JSON value of at most MaxSize rendered lines over the *)
(* primitives Prims and the keys Keys, of which "constructor" is a name    *)
(* every object inherits; and, for nesting two levels deep, every array    *)
(* and object with a non-empty array or object as its only child           *)

Prims == {Num("1"), Num("2"), Str("1")}
Keys == {"a", "b", "constructor"}

\* The sequences of n distinct keys
KeySeqs(n) == {ks \in [1..n -> Keys] : \A i, j \in 1..n : ks[i] = ks[j] => i = j}

\* sizeOf: 1 per primitive, 2 plus the sizes of the children per object or array
RECURSIVE sizeOf(_)
Sum(f) == LET RECURSIVE upTo(_)
              upTo(n) == IF n = 0 THEN 0 ELSE f[n] + upTo(n - 1)
          IN upTo(Len(f))
sizeOf(v) == IF v.kind = "primitive" THEN 1
             ELSE 2 + Sum([i \in 1..Len(v.items) |-> sizeOf(v.items[i])])

RECURSIVE ValuesOfSize(_), ItemLists(_)
\* The lists of values whose sizes add up to m
ItemLists(m) ==
  IF m = 0 THEN {<<>>}
  ELSE UNION {{<<v>> \o rest : v \in ValuesOfSize(s), rest \in ItemLists(m - s)} : s \in 1..m}
ValuesOfSize(n) ==
  IF n = 1 THEN Prims
  ELSE {Arr(xs) : xs \in ItemLists(n - 2)}
       \cup UNION {{Obj(ks, xs) : ks \in KeySeqs(Len(xs))} : xs \in ItemLists(n - 2)}

Values == UNION {ValuesOfSize(n) : n \in 1..MaxSize}
Wrapped == {Arr(<<v>>) : v \in ValuesOfSize(3)}
           \cup {Obj(<<"a">>, <<v>>) : v \in ValuesOfSize(3)}
Inputs == Values \cup Wrapped \cup {undefined}

(* Documents whose keys are arbitrary strings: JSON allows the empty key   *)
(* and keys that contain '.' or '[', and the engine builds paths from the   *)
(* keys as they are                                                         *)
PathKeys == {"", "a", "b", "a.b"}
PathLeaf == Num("1")
PathObjects ==
  {Obj(<<k>>, <<PathLeaf>>) : k \in PathKeys}
  \cup {Obj(<<k>>, <<Obj(<<j>>, <<PathLeaf>>)>>) : k, j \in PathKeys}
  \cup {Obj(<<k>>, <<Arr(<<PathLeaf>>)>>) : k \in PathKeys}
  \cup {Arr(<<Obj(<<k>>, <<PathLeaf>>)>>) : k \in PathKeys}
  \cup {Obj(<<kj[1], kj[2]>>, <<PathLeaf, Obj(<<h>>, <<PathLeaf>>)>>) :
          kj \in {p \in PathKeys \X PathKeys : p[1] # p[2]}, h \in PathKeys}
PathInputs == PathObjects \cup {undefined}

----------------------------------------------------------------------------
(* JSON texts: JSON.stringify builds a text from a value character by      *)
(* character; JSON.parse is its inverse on the texts of the model, and      *)
(* throws on every other text                                               *)

Null == Prim("null", "null")
True == Prim("boolean", "true")
False == Prim("boolean", "false")

\* !value is false: every value but 0, "", false and null
Truthy(value) ==
  CASE value.kind # "primitive" -> TRUE
    [] value.ptype = "number" -> value.text # "0"
    [] value.ptype = "string" -> value.text # ""
    [] value.ptype = "boolean" -> value.text = "true"
    [] OTHER -> FALSE

RECURSIVE Spaces(_)
Spaces(n) == IF n = 0 THEN "" ELSE " " \o Spaces(n - 1)

Quote(str) == "\"" \o str \o "\""

\* Array.prototype.join
RECURSIVE Join(_, _)
Join(strs, sep) ==
  IF strs = <<>> THEN ""
  ELSE IF Len(strs) = 1 THEN strs[1]
  ELSE strs[1] \o sep \o Join(Tail(strs), sep)

\* The first position from i on where str has char, 0 when there is none
IndexFrom(str, char, i) ==
  LET at == {j \in i..Len(str) : SubSeq(str, j, j) = char}
  IN IF at = {} THEN 0 ELSE CHOOSE j \in at : \A k \in at : j <= k

\* text.split('\n'), from position start on
RECURSIVE SplitFrom(_, _)
SplitFrom(text, start) ==
  LET end == IndexFrom(text, "\n", start)
  IN IF end = 0 THEN <<SubSeq(text, start, Len(text))>>
     ELSE <<SubSeq(text, start, end - 1)>> \o SplitFrom(text, end + 1)
SplitLines(text) == SplitFrom(text, 1)

\* JSON.stringify of a primitive (the strings of the model need no escapes)
stringifyPrimitive(value) == IF value.ptype = "string" THEN Quote(value.text) ELSE value.text

\* JSON.stringify(value)
RECURSIVE stringifyCompact(_)
stringifyCompact(value) ==
  CASE value.kind = "object" ->
         "{" \o Join([i \in 1..Len(value.keys) |->
                  Quote(value.keys[i]) \o ":" \o stringifyCompact(value.items[i])], ",") \o "}"
    [] value.kind = "array" ->
         "[" \o Join([i \in 1..Len(value.items) |-> stringifyCompact(value.items[i])], ",") \o "]"
    [] OTHER -> stringifyPrimitive(value)

\* The lines of JSON.stringify(value, null, 2) for a value at the given
\* depth, its first line without the indentation and the key before it
RECURSIVE stringifyLines(_, _)
stringifyLines(value, depth) ==
  IF value.kind = "primitive" THEN <<stringifyPrimitive(value)>>
  ELSE
    LET open == IF value.kind = "object" THEN "{" ELSE "["
        close == IF value.kind = "object" THEN "}" ELSE "]"
        n == Len(value.items)
        member(i) ==
          LET lines == stringifyLines(value.items[i], depth + 1)
              name == IF value.kind = "object" THEN Quote(value.keys[i]) \o ": " ELSE ""
              comma == IF i < n THEN "," ELSE ""
              first == Spaces(2 * (depth + 1)) \o name \o lines[1]
          IN IF Len(lines) = 1 THEN <<first \o comma>>
             ELSE <<first>> \o SubSeq(lines, 2, Len(lines) - 1)
                  \o <<lines[Len(lines)] \o comma>>
    IN IF n = 0 THEN <<open \o close>>
       ELSE <<open>> \o Flatten([i \in 1..n |-> member(i)]) \o <<Spaces(2 * depth) \o close>>

\* JSON.stringify(value, null, 2)
stringifyPretty(value) == Join(stringifyLines(value, 0), "\n")

\* The JSON values of a given size over given primitives and keys
RECURSIVE ValuesOver(_, _, _), ItemListsOver(_, _, _)
ItemListsOver(prims, keys, m) ==
  IF m = 0 THEN {<<>>}
  ELSE UNION {{<<v>> \o rest : v \in ValuesOver(prims, keys, s),
                               rest \in ItemListsOver(prims, keys, m - s)} : s \in 1..m}
ValuesOver(prims, keys, n) ==
  IF n = 1 THEN prims
  ELSE {Arr(xs) : xs \in ItemListsOver(prims, keys, n - 2)}
       \cup UNION {{Obj(ks, xs) : ks \in {f \in [1..Len(xs) -> keys] :
                                            \A i, j \in 1..Len(xs) : f[i] = f[j] => i = j}} :
                   xs \in ItemListsOver(prims, keys, n - 2)}

\* The documents App starts with (useState of jsonA and jsonB), and what
\* JSON.parse makes of them
DefaultJsonA == "{\n  \"project\": \"SuperApp\",\n  \"version\": 1.0,\n  \"settings\": {\n    \"theme\": \"light\",\n    \"notifications\": true\n  },\n  \"tags\": [\"react\", \"tailwind\"]\n}"
DefaultJsonB == "{\n  \"project\": \"SuperApp Pro\",\n  \"version\": 1.2,\n  \"settings\": {\n    \"theme\": \"dark\",\n    \"advanced\": true\n  },\n  \"tags\": [\"react\", \"typescript\"]\n}"
DefaultValueA ==
  Obj(<<"project", "version", "settings", "tags">>,
      <<Str("SuperApp"), Num("1"),
        Obj(<<"theme", "notifications">>, <<Str("light"), True>>),
        Arr(<<Str("react"), Str("tailwind")>>)>>)
DefaultValueB ==
  Obj(<<"project", "version", "settings", "tags">>,
      <<Str("SuperApp Pro"), Num("1.2"),
        Obj(<<"theme", "advanced">>, <<Str("dark"), True>>),
        Arr(<<Str("react"), Str("typescript")>>)>>)

\* The document JsonFormatterPage starts with, and what JSON.parse makes of it
DefaultJsonInput == "{\n  \"name\": \"John Doe\",\n  \"age\": 30,\n  \"email\": \"john@example.com\",\n  \"isActive\": true,\n  \"address\": {\n    \"street\": \"123 Main St\",\n    \"city\": \"New York\",\n    \"country\": \"USA\"\n  },\n  \"hobbies\": [\"reading\", \"coding\", \"gaming\"],\n  \"metadata\": null\n}"
DefaultInputValue ==
  Obj(<<"name", "age", "email", "isActive", "address", "hobbies", "metadata">>,
      <<Str("John Doe"), Num("30"), Str("john@example.com"), True,
        Obj(<<"street", "city", "country">>,
            <<Str("123 Main St"), Str("New York"), Str("USA")>>),
        Arr(<<Str("reading"), Str("coding"), Str("gaming")>>), Null>>)

\* The documents typed into the pages: every value of at most MaxSize lines
\* over two numbers and the keys a and b, the objects of three keys, the
\* values that are false as a condition, and containers of containers
LinePrims == {Num("1"), Num("2")}
LineValues ==
  UNION {ValuesOver(LinePrims, {"a", "b"}, n) : n \in 1..MaxSize}
  \cup {Obj(ks, <<x, y, z>>) : ks \in {<<"a", "b", "c">>, <<"a", "c", "b">>, <<"c", "a", "b">>},
                               x \in LinePrims, y \in LinePrims, z \in LinePrims}
  \cup {Obj(<<"a", "b">>, <<Arr(<<x>>), y>>) : x \in LinePrims, y \in LinePrims}
  \cup {Obj(<<"a", "b">>, <<y, Obj(<<"a">>, <<x>>)>>) : x \in LinePrims, y \in LinePrims}
\* Documents with something to collapse: objects and arrays inside objects
\* and arrays, two levels deep
CollapseValues ==
  {Obj(<<"a">>, <<Obj(<<"b">>, <<Num("1")>>)>>),
   Obj(<<"a", "b">>, <<Obj(<<"b">>, <<Num("1")>>), Num("2")>>),
   Obj(<<"a", "b">>, <<Arr(<<Num("1")>>), Num("2")>>),
   Obj(<<"a">>, <<Arr(<<Obj(<<"b">>, <<Num("1")>>)>>)>>),
   Obj(<<"a">>, <<Obj(<<"b">>, <<Obj(<<"a">>, <<Num("1")>>)>>)>>),
   Obj(<<"b", "a">>, <<Num("2"), Obj(<<"b">>, <<Num("2")>>)>>),
   Arr(<<Obj(<<"a">>, <<Num("1")>>)>>),
   Obj(<<"b">>, <<Num("2")>>)}
FalsyValues == {Num("0"), Str(""), False, Null}
TextValues ==
  LineValues \cup CollapseValues \cup FalsyValues
  \cup {True, Str("a"), DefaultValueA, DefaultValueB, DefaultInputValue}

\* Texts that are not JSON (the last two are blank)
InvalidTexts == {"{", "{\"a\":}", "a", "", " "}

\* The text and value of every JSON text of the model
Parses ==
  {<<stringifyPretty(v), v>> : v \in TextValues}
  \cup {<<stringifyCompact(v), v>> : v \in TextValues}
  \cup {<<DefaultJsonA, DefaultValueA>>, <<DefaultJsonB, DefaultValueB>>,
        <<DefaultJsonInput, DefaultInputValue>>, <<" 1 ", Num("1")>>}
ValidTexts == {p[1] : p \in Parses}
Texts == ValidTexts \cup InvalidTexts

\* JSON.parse(text): <<value>>, or <<>> when it throws a SyntaxError
JSONparse(text) ==
  IF text \in ValidTexts THEN <<(CHOOSE p \in Parses : p[1] = text)[2]>> ELSE <<>>

\* String.prototype.trim, of spaces and line ends
RECURSIVE trim(_)
trim(text) ==
  IF text = "" THEN ""
  ELSE IF SubSeq(text, 1, 1) \in {" ", "\n"} THEN trim(SubSeq(text, 2, Len(text)))
  ELSE IF SubSeq(text, Len(text), Len(text)) \in {" ", "\n"}
       THEN trim(SubSeq(text, 1, Len(text) - 1))
  ELSE text

----------------------------------------------------------------------------
(* The line diff of the Compare page: src/src/App.tsx                      *)
(* A DiffLine is [lineNum, content, status, path, isCollapsible, depth];    *)
(* path?: string is <<p>> when set and NoPath when not, isCollapsible?:     *)
(* boolean is FALSE when not set                                            *)

NoPath == <<>>

CharAt(str, i) == SubSeq(str, i, i)

\* (line.match(/[{[]/g) || []).length and its like: how many characters of
\* str are among chars
CountOf(str, chars) == Cardinality({i \in 1..Len(str) : CharAt(str, i) \in chars})

\* String.prototype.includes, of one character
includes(str, char) == \E i \in 1..Len(str) : CharAt(str, i) = char

\* The first position from i on where str has no white space
AfterSpaces(str, i) ==
  LET at == {j \in i..Len(str) : CharAt(str, j) \notin {" ", "\n"}}
  IN IF at = {} THEN Len(str) + 1 ELSE CHOOSE j \in at : \A k \in at : j <= k

\* /"([^"]+)"\s*:/ tried at position i: <<the group>>, or <<>> without a match
KeyAt(str, i) ==
  IF i > Len(str) \/ CharAt(str, i) # "\"" THEN <<>>
  ELSE LET j == IndexFrom(str, "\"", i + 1)
       IN IF j = 0 \/ j = i + 1 THEN <<>>
          ELSE LET k == AfterSpaces(str, j + 1)
               IN IF k <= Len(str) /\ CharAt(str, k) = ":"
                  THEN <<SubSeq(str, i + 1, j - 1)>> ELSE <<>>

\* str.match(/"([^"]+)"\s*:/)?.[1]: the first match from the left
KeyOf(str) ==
  LET at == {i \in 1..Len(str) : KeyAt(str, i) # <<>>}
  IN IF at = {} THEN <<>> ELSE KeyAt(str, CHOOSE i \in at : \A k \in at : i <= k)

\* getLinePaths: path, isCollapsible and depth of each line, the loop of
\* forEach from line idx on with the pathStack, currentKey and depth reached
RECURSIVE LinePathsFrom(_, _, _, _, _)
LinePathsFrom(lines, idx, pathStack, currentKey, depth) ==
  IF idx > Len(lines) THEN <<>>
  ELSE
    LET line == lines[idx]
        trimmed == trim(line)
        openBrackets == CountOf(line, {"{", "["})
        closeBrackets == CountOf(line, {"}", "]"})
        keyMatch == KeyAt(trimmed, 1)
        key == IF keyMatch # <<>> THEN keyMatch[1] ELSE currentKey
        currentPath == Join(SelectSeq(Append(pathStack, key), LAMBDA k : k # ""), ".")
        info == [path |-> IF currentPath # "" THEN currentPath ELSE "root",
                 isCollapsible |-> includes(trimmed, "{") \/ includes(trimmed, "["),
                 depth |-> depth]
    IN <<info>> \o
       (IF openBrackets > closeBrackets
        THEN LinePathsFrom(lines, idx + 1, Append(pathStack, key), "", depth + 1)
        ELSE IF closeBrackets > openBrackets
        THEN LinePathsFrom(lines, idx + 1,
                           IF pathStack = <<>> THEN <<>>
                           ELSE SubSeq(pathStack, 1, Len(pathStack) - 1),
                           key, depth - 1)
        ELSE LinePathsFrom(lines, idx + 1, pathStack, key, depth))

getLinePaths(jsonStr) == LinePathsFrom(SplitLines(jsonStr), 1, <<>>, "", 0)

\* Mutant of ContentLine: the content without its indentation
ContentLineTrimmed(lineNum, content, status, info) ==
  [lineNum |-> lineNum, content |-> trim(content), status |-> status,
   path |-> <<info.path>>, isCollapsible |-> info.isCollapsible, depth |-> info.depth]

\* Mutant of ContentLine: the lines numbered from 0
ContentLineFromZero(lineNum, content, status, info) ==
  [lineNum |-> lineNum - 1, content |-> content, status |-> status,
   path |-> <<info.path>>, isCollapsible |-> info.isCollapsible, depth |-> info.depth]

\* A row's line with content, and the blank line beside an added or removed one
ContentLine(lineNum, content, status, info) ==
  [lineNum |-> lineNum, content |-> content, status |-> status,
   path |-> <<info.path>>, isCollapsible |-> info.isCollapsible, depth |-> info.depth]
BlankLine(lineNum, status, info) ==
  [lineNum |-> lineNum, content |-> "", status |-> status,
   path |-> NoPath, isCollapsible |-> FALSE, depth |-> info.depth]

\* rightLines.slice(rightIdx).includes(leftContent)
InRest(lines, idx, content) == \E i \in idx..Len(lines) : lines[i] = content

\* The while loop of compareJsonPreserving from leftIdx, rightIdx and lineNum
\* on (indices from 1): the rows it pushes, each <<left line, right line>>
RECURSIVE DiffRowsFrom(_, _, _, _, _, _, _)
DiffRowsFrom(leftLines, rightLines, leftPaths, rightPaths, leftIdx, rightIdx, lineNum) ==
  LET hasLeft == leftIdx <= Len(leftLines)
      hasRight == rightIdx <= Len(rightLines)
      leftContent == leftLines[leftIdx]
      rightContent == rightLines[rightIdx]
      leftPathInfo == leftPaths[leftIdx]
      rightPathInfo == rightPaths[rightIdx]
      both(status) == <<ContentLine(lineNum, leftContent, status, leftPathInfo),
                        ContentLine(lineNum, rightContent, status, rightPathInfo)>>
      removed(num) == <<ContentLine(num, leftContent, "removed", leftPathInfo),
                        BlankLine(num, "removed", leftPathInfo)>>
      added(num) == <<BlankLine(num, "added", rightPathInfo),
                      ContentLine(num, rightContent, "added", rightPathInfo)>>
      rest(l, r, num) == DiffRowsFrom(leftLines, rightLines, leftPaths, rightPaths, l, r, num)
  IN
  IF ~hasLeft /\ ~hasRight THEN <<>>
  ELSE IF hasLeft /\ hasRight /\ leftContent = rightContent THEN
    <<both("unchanged")>> \o rest(leftIdx + 1, rightIdx + 1, lineNum + 1)
  ELSE IF hasLeft /\ hasRight THEN
    LET leftKey == KeyOf(leftContent)
        rightKey == KeyOf(rightContent)
    IN IF leftKey # <<>> /\ rightKey # <<>> /\ leftKey = rightKey THEN
         <<both("modified")>> \o rest(leftIdx + 1, rightIdx + 1, lineNum + 1)
       ELSE
         LET leftInRight == InRest(rightLines, rightIdx, leftContent)
             rightInLeft == InRest(leftLines, leftIdx, rightContent)
         IN IF ~leftInRight /\ rightInLeft THEN
              <<removed(lineNum)>> \o rest(leftIdx + 1, rightIdx, lineNum + 1)
            ELSE IF leftInRight /\ ~rightInLeft THEN
              <<added(lineNum)>> \o rest(leftIdx, rightIdx + 1, lineNum + 1)
            ELSE
              <<removed(lineNum), added(lineNum + 1)>>
              \o rest(leftIdx + 1, rightIdx + 1, lineNum + 2)
  ELSE IF hasLeft THEN
    <<removed(lineNum)>> \o rest(leftIdx + 1, rightIdx, lineNum + 1)
  ELSE
    <<added(lineNum)>> \o rest(leftIdx, rightIdx + 1, lineNum + 1)

\* compareJsonPreserving(leftJson, rightJson): a DiffResult
compareJsonPreserving(leftJson, rightJson) ==
  LET parsedLeft == JSONparse(leftJson)
      parsedRight == JSONparse(rightJson)
  IN IF parsedLeft = <<>> \/ parsedRight = <<>>
     THEN [leftLines |-> <<>>, rightLines |-> <<>>]
     ELSE LET formattedLeft == stringifyPretty(parsedLeft[1])
              formattedRight == stringifyPretty(parsedRight[1])
              rows == DiffRowsFrom(SplitLines(formattedLeft), SplitLines(formattedRight),
                                   getLinePaths(formattedLeft), getLinePaths(formattedRight),
                                   1, 1, 1)
          IN [leftLines |-> [i \in 1..Len(rows) |-> rows[i][1]],
              rightLines |-> [i \in 1..Len(rows) |-> rows[i][2]]]

----------------------------------------------------------------------------
(* The state: the two values handed to compareJson and, once it has run,   *)
(* the two node sequences it returned (the props of DiffViewer)            *)

VARIABLES left, right, leftNodes, rightNodes, compared

engineVars == <<left, right, leftNodes, rightNodes, compared>>

(* The state of DiffViewer: the paths the user has collapsed *)
VARIABLES collapsedPaths

viewerVars == <<collapsedPaths>>

\* useState<Set<string>>(new Set())
ViewerInit == collapsedPaths = {}

(* The state of App that the keyboard and the navigation bar act on: the   *)
(* page shown and the position reached in KONAMI_CODE; recentCodes records  *)
(* the longest run of the latest keydown codes that begins KONAMI_CODE      *)
VARIABLES currentPage, konamiIndex, recentCodes

konamiVars == <<currentPage, konamiIndex, recentCodes>>

\* useState<AppPage>('compare'), useRef(0)
KonamiInit == currentPage = "compare" /\ konamiIndex = 0 /\ recentCodes = <<>>

(* The state of App that the logo acts on: the two refs of handleLogoClick, *)
(* the clock Date.now() reads, and whether the latest click fired confetti; *)
(* runLength counts the clicks of the current run of quick clicks           *)
VARIABLES clickCount, lastClickTime, now, confettiFired

VARIABLES runLength

partyVars == <<clickCount, lastClickTime, now, confettiFired, runLength>>

\* The clock when the page is loaded: later than 500 ms after the epoch
PageLoadTime == 1000

\* useRef(0), useRef(0); no click yet
PartyInit ==
  /\ clickCount = 0
  /\ lastClickTime = 0
  /\ now = PageLoadTime
  /\ confettiFired = FALSE
  /\ runLength = 0

(* The state of the Compare page: the two texts, the line diff of the last  *)
(* comparison (<<result>>, or NoResult for null), the mode, the collapsed   *)
(* paths (collapsedPaths of App), the error banner (<<message>>, or NoError *)
(* for null); lastHandler records the handler that ran last                 *)
VARIABLES jsonA, jsonB, diffResult, compareMode, pageCollapsedPaths, error, lastHandler

pageVars == <<jsonA, jsonB, diffResult, compareMode, pageCollapsedPaths, error, lastHandler>>

NoResult == <<>>
NoError == <<>>

\* The useState calls of App and ComparePage
PageInit ==
  /\ jsonA = DefaultJsonA
  /\ jsonB = DefaultJsonB
  /\ diffResult = NoResult
  /\ compareMode = "input"
  /\ pageCollapsedPaths = {}
  /\ error = NoError
  /\ lastHandler = "none"

(* The state of JsonFormatterPage: the input text and the view *)
VARIABLES jsonInput, viewMode

formatterVars == <<jsonInput, viewMode>>

\* useState(initialJson || '...'), opened from the navigation bar;
\* useState<ViewMode>('formatted')
FormatterInit == jsonInput = DefaultJsonInput /\ viewMode = "formatted"

(* The two scroll panels of a diff view (DiffViewer, or the Compare page): *)
(* the position of each panel, the panels with a scroll event queued, the  *)
(* syncing flag (isSyncingRef, isScrolling) and the reset timers pending   *)
VARIABLES scrollHost, scrollPos, scrollQueued, isSyncing, scrollTimers

scrollVars == <<scrollHost, scrollPos, scrollQueued, isSyncing, scrollTimers>>

Panels == {"left", "right"}

ScrollInit ==
  /\ scrollHost = "DiffViewer"
  /\ scrollPos = [panel \in Panels |-> [scrollTop |-> 0, scrollLeft |-> 0]]
  /\ scrollQueued = {}
  /\ isSyncing = FALSE
  /\ scrollTimers = 0

(* The state of SecretGamePage, the snake game: gameState, the refs of the  *)
(* game loop, the highScore state and the localStorage item                *)
(* 'secret_snake_highscore' (<<text>>, or <<>> when there is none)         *)
VARIABLES gameState, snakeRef, foodRef, dirRef, nextDirRef, scoreRef, highScore, snakeHighscore

snakeVars ==
  <<gameState, snakeRef, foodRef, dirRef, nextDirRef, scoreRef, highScore, snakeHighscore>>

\* useState and useRef of SecretGamePage, on a browser without a stored score
SnakeInit ==
  /\ gameState = "start"
  /\ snakeRef = <<>>
  /\ foodRef = [x |-> 15, y |-> 15]
  /\ dirRef = [x |-> 0, y |-> 0]
  /\ nextDirRef = [x |-> 0, y |-> 0]
  /\ scoreRef = 0
  /\ highScore = 0
  /\ snakeHighscore = <<>>

(* The state of BugRunnerPage, the runner game: gameState, scoreRef, the    *)
(* highScore state and the localStorage item 'devgame_highscore'           *)
VARIABLES runnerState, runnerScoreRef, runnerHighScore, devgameHighscore

runnerVars == <<runnerState, runnerScoreRef, runnerHighScore, devgameHighscore>>

\* useState and useRef of BugRunnerPage, on a browser without a stored score
RunnerInit ==
  /\ runnerState = "start"
  /\ runnerScoreRef = 0
  /\ runnerHighScore = 0
  /\ devgameHighscore = <<>>

vars ==
  <<engineVars, viewerVars, konamiVars, partyVars, pageVars, formatterVars, scrollVars,
    snakeVars, runnerVars>>

\* The arguments of compareJson before a document is given
EngineInit ==
  /\ left = undefined
  /\ right = undefined
  /\ leftNodes = <<>>
  /\ rightNodes = <<>>
  /\ compared = FALSE

\* Every part of the state outside the parts named, as constructed
AtRest(parts) ==
  /\ IF "engine" \in parts THEN TRUE ELSE EngineInit
  /\ IF "viewer" \in parts THEN TRUE ELSE ViewerInit
  /\ IF "konami" \in parts THEN TRUE ELSE KonamiInit
  /\ IF "party" \in parts THEN TRUE ELSE PartyInit
  /\ IF "page" \in parts THEN TRUE ELSE PageInit
  /\ IF "formatter" \in parts THEN TRUE ELSE FormatterInit
  /\ IF "scroll" \in parts THEN TRUE ELSE ScrollInit
  /\ IF "snake" \in parts THEN TRUE ELSE SnakeInit
  /\ IF "runner" \in parts THEN TRUE ELSE RunnerInit

\* Every part of the state outside the parts named, left alone
Untouched(parts) ==
  /\ IF "engine" \in parts THEN TRUE ELSE UNCHANGED engineVars
  /\ IF "viewer" \in parts THEN TRUE ELSE UNCHANGED viewerVars
  /\ IF "konami" \in parts THEN TRUE ELSE UNCHANGED konamiVars
  /\ IF "party" \in parts THEN TRUE ELSE UNCHANGED partyVars
  /\ IF "page" \in parts THEN TRUE ELSE UNCHANGED pageVars
  /\ IF "formatter" \in parts THEN TRUE ELSE UNCHANGED formatterVars
  /\ IF "scroll" \in parts THEN TRUE ELSE UNCHANGED scrollVars
  /\ IF "snake" \in parts THEN TRUE ELSE UNCHANGED snakeVars
  /\ IF "runner" \in parts THEN TRUE ELSE UNCHANGED runnerVars

Init ==
  /\ left \in Inputs
  /\ right \in Inputs
  /\ leftNodes = <<>>
  /\ rightNodes = <<>>
  /\ compared = FALSE
  /\ AtRest({"engine"})

\* const { leftNodes, rightNodes } = compareJson(left, right)
Compare ==
  /\ ~compared
  /\ LET result == compareJson(left, right, "", 0, NoKey, FALSE, NoIndex)
     IN /\ leftNodes' = result.leftNodes
        /\ rightNodes' = result.rightNodes
  /\ compared' = TRUE
  /\ UNCHANGED <<left, right>>

Next == Compare /\ Untouched({"engine"})

Spec == Init /\ [][Next]_vars

\* The same call on documents with arbitrary keys
InitPaths ==
  /\ left \in PathInputs
  /\ right \in {undefined, left, Obj(<<"a">>, <<PathLeaf>>)}
  /\ leftNodes = <<>>
  /\ rightNodes = <<>>
  /\ compared = FALSE
  /\ AtRest({"engine"})

SpecPaths == InitPaths /\ [][Next]_vars

----------------------------------------------------------------------------
(* DiffViewer: the two sequences are its props, the user collapses and     *)
(* expands paths, and each render shows the filtered sequences             *)

\* String.prototype.startsWith
startsWith(str, prefix) ==
  Len(str) >= Len(prefix) /\ SubSeq(str, 1, Len(prefix)) = prefix

\* The test of filterNodes on one node: under a collapsed path
shouldSkip(node) ==
  \E collapsedPath \in collapsedPaths :
    \/ startsWith(node.path, collapsedPath \o ".")
    \/ startsWith(node.path, collapsedPath \o "[")

\* filterNodes: the nodes that are rendered, in order
filterNodes(nodes) ==
  LET kept(node) == /\ ~shouldSkip(node)
                    /\ ~(node.isClosingBracket /\ node.path \in collapsedPaths)
  IN SelectSeq(nodes, kept)

filteredLeftNodes == filterNodes(leftNodes)
filteredRightNodes == filterNodes(rightNodes)

\* DiffLine: the toggle button is rendered on a collapsible node that shows
\* an opening bracket on its side
showCollapseToggle(node, value) == node.isCollapsible /\ value \in {Str("{"), Str("[")}

\* The paths whose toggle button is on screen
TogglePaths ==
  {filteredLeftNodes[i].path : i \in {j \in 1..Len(filteredLeftNodes) :
      showCollapseToggle(filteredLeftNodes[j], filteredLeftNodes[j].leftValue)}}
  \cup {filteredRightNodes[i].path : i \in {j \in 1..Len(filteredRightNodes) :
      showCollapseToggle(filteredRightNodes[j], filteredRightNodes[j].rightValue)}}

\* Mutant of toggled: the path is taken out, and never put in
toggledRemoveOnly(prev, path) == prev \ {path}

\* The updater handed to setCollapsedPaths, in DiffViewer and on the Compare
\* page: a copy of prev with path deleted if it has it, added if not
toggled(prev, path) == IF path \in prev THEN prev \ {path} ELSE prev \cup {path}

\* handleToggleCollapse(path), from a click on a toggle button
handleToggleCollapse ==
  /\ compared
  /\ \E path \in TogglePaths :
       collapsedPaths' = toggled(collapsedPaths, path)
  /\ UNCHANGED engineVars

\* The documents the viewer is checked on: those of Inputs over the keys a
\* and b and the numbers
RECURSIVE IsPlain(_)
IsPlain(v) ==
  /\ v.kind = "primitive" => v.ptype = "number"
  /\ \A i \in 1..Len(v.keys) : v.keys[i] \in {"a", "b"}
  /\ \A i \in 1..Len(v.items) : IsPlain(v.items[i])
ViewerInputs == {v \in Inputs : IsPlain(v)}

InitViewer ==
  /\ left \in ViewerInputs
  /\ right \in ViewerInputs
  /\ leftNodes = <<>>
  /\ rightNodes = <<>>
  /\ compared = FALSE
  /\ ViewerInit
  /\ AtRest({"engine", "viewer"})

NextViewer ==
  /\ \/ Compare /\ UNCHANGED viewerVars
     \/ handleToggleCollapse
  /\ Untouched({"engine", "viewer"})

SpecViewer == InitViewer /\ [][NextViewer]_vars

----------------------------------------------------------------------------
(* App: the keydown listener and the navigation *)

KONAMI_CODE == <<"ArrowUp", "ArrowUp", "ArrowDown", "ArrowDown", "ArrowLeft",
                 "ArrowRight", "ArrowLeft", "ArrowRight", "KeyB", "KeyA">>

\* The codes of the keys pressed: those of KONAMI_CODE and one other
KeyCodes == Range(KONAMI_CODE) \cup {"KeyX"}

IsSuffix(s, t) == Len(s) <= Len(t) /\ SubSeq(t, Len(t) - Len(s) + 1, Len(t)) = s

\* The longest run at the end of codes that begins KONAMI_CODE
LatestRun(codes) ==
  LET lengths == {n \in 0..Len(KONAMI_CODE) : IsSuffix(SubSeq(KONAMI_CODE, 1, n), codes)}
  IN SubSeq(KONAMI_CODE, 1, CHOOSE n \in lengths : \A m \in lengths : m <= n)

\* konamiIndex.current after the key
konamiIndexAfter(code) ==
  IF code = KONAMI_CODE[konamiIndex + 1]
  THEN (IF konamiIndex + 1 = Len(KONAMI_CODE) THEN 0 ELSE konamiIndex + 1)
  ELSE 0

\* handleKeyDown(e), with e.code = code
handleKeyDown ==
  \E code \in KeyCodes :
    /\ konamiIndex' = konamiIndexAfter(code)
    /\ currentPage' =
         IF code = KONAMI_CODE[konamiIndex + 1] /\ konamiIndex + 1 = Len(KONAMI_CODE)
         THEN "secret" ELSE currentPage
    /\ recentCodes' = LatestRun(Append(recentCodes, code))

\* Mutant of NavPages: the navigation bar has a button for the secret page
NavPagesWithSecret ==
  {"compare", "format", "date", "base64", "tools", "xml", "yaml", "mongo",
   "feedback", "about", "secret"}

\* The pages of the navigation bar
NavPages == {"compare", "format", "date", "base64", "tools", "xml", "yaml", "mongo",
             "feedback", "about"}

\* onClick={() => setCurrentPage(page)} of a navigation button
Navigate ==
  /\ \E page \in NavPages : currentPage' = page
  /\ UNCHANGED <<konamiIndex, recentCodes>>

\* openInFormat, the Compare page's 'Open in Format' button
openInFormat ==
  /\ currentPage = "compare"
  /\ currentPage' = "format"
  /\ UNCHANGED <<konamiIndex, recentCodes>>

\* AboutPage onStartGame
onStartGame ==
  /\ currentPage = "about"
  /\ currentPage' = "game"
  /\ UNCHANGED <<konamiIndex, recentCodes>>

\* SecretGamePage onExit
onExit ==
  /\ currentPage = "secret"
  /\ currentPage' = "about"
  /\ UNCHANGED <<konamiIndex, recentCodes>>

InitKonami == KonamiInit /\ AtRest({"konami"})

NextKonami ==
  /\ \/ handleKeyDown
     \/ Navigate
     \/ openInFormat
     \/ onStartGame
     \/ onExit
  /\ Untouched({"konami"})

SpecKonami == InitKonami /\ [][NextKonami]_vars

----------------------------------------------------------------------------
(* App: the logo, clicked five times quickly, fires confetti *)

\* The longest time between two clicks of one run, in ms
ClickWindow == 500
\* The clicks that fire the confetti
PartyClicks == 5

\* The time the clock is followed for after the page is loaded, in ms
MaxElapsed == 2600
\* The steps the clock advances by between events: twice the first is
\* ClickWindow, the two together are 1 ms more
Ticks == {250, 251}

\* Time passes
Tick ==
  /\ \E d \in Ticks : now + d <= PageLoadTime + MaxElapsed /\ now' = now + d
  /\ UNCHANGED <<clickCount, lastClickTime, confettiFired, runLength>>

\* Mutant of clickCountAt: a click exactly ClickWindow after the previous
\* one starts anew
clickCountAtOrAfter(time) == IF time - lastClickTime >= ClickWindow THEN 0 ELSE clickCount
\* clickCount.current once the time since the previous click has been tested
clickCountAt(time) == IF time - lastClickTime > ClickWindow THEN 0 ELSE clickCount

\* handleLogoClick; runLength follows the run of clicks that are each at
\* most ClickWindow after the previous one, a run ending with its fifth click
handleLogoClick ==
  /\ LET count == clickCountAt(now) + 1
     IN /\ confettiFired' = (count = PartyClicks)
        /\ clickCount' = IF count = PartyClicks THEN 0 ELSE count
  /\ lastClickTime' = now
  /\ runLength' = IF runLength \in {0, PartyClicks} \/ now - lastClickTime > ClickWindow
                   THEN 1 ELSE runLength + 1
  /\ UNCHANGED now

InitParty == PartyInit /\ AtRest({"party"})

NextParty ==
  /\ \/ Tick
     \/ handleLogoClick
  /\ Untouched({"party"})

SpecParty == InitParty /\ [][NextParty]_vars

----------------------------------------------------------------------------
(* ComparePage: the handlers of the Compare page *)

\* The texts typed into the two text areas
TypedTexts ==
  {"{",
   stringifyCompact(Obj(<<"a", "b">>, <<Arr(<<Num("1")>>), Num("2")>>)),
   stringifyCompact(Obj(<<"a", "b">>, <<Num("1"), Obj(<<"a">>, <<Num("1")>>)>>))}

\* Mutant of setJsonA: the left text can be edited in compare mode too
setJsonAInAnyMode ==
  /\ \E text \in TypedTexts : jsonA' = text
  /\ lastHandler' = "setJsonA"
  /\ UNCHANGED <<jsonB, diffResult, compareMode, pageCollapsedPaths, error>>

\* onChange of the left text area (rendered in input mode)
setJsonA ==
  /\ compareMode = "input"
  /\ \E text \in TypedTexts : jsonA' = text
  /\ lastHandler' = "setJsonA"
  /\ UNCHANGED <<jsonB, diffResult, compareMode, pageCollapsedPaths, error>>

\* onChange of the right text area (rendered in input mode)
setJsonB ==
  /\ compareMode = "input"
  /\ \E text \in TypedTexts : jsonB' = text
  /\ lastHandler' = "setJsonB"
  /\ UNCHANGED <<jsonA, diffResult, compareMode, pageCollapsedPaths, error>>

\* Mutant of processDiff: the collapsed paths and the mode are set before
\* the texts are parsed
processDiffResetFirst ==
  /\ compareMode = "input"
  /\ lastHandler' = "processDiff"
  /\ pageCollapsedPaths' = {}
  /\ compareMode' = "compare"
  /\ IF JSONparse(jsonA) # <<>> /\ JSONparse(jsonB) # <<>>
     THEN diffResult' = <<compareJsonPreserving(jsonA, jsonB)>> /\ error' = NoError
     ELSE error' = <<"Invalid JSON">> /\ UNCHANGED diffResult
  /\ UNCHANGED <<jsonA, jsonB>>

\* processDiff, the Compare button (rendered in input mode); the message of
\* the error is "Invalid JSON: " and the parser's words
processDiff ==
  /\ compareMode = "input"
  /\ lastHandler' = "processDiff"
  /\ IF JSONparse(jsonA) # <<>> /\ JSONparse(jsonB) # <<>>
     THEN /\ diffResult' = <<compareJsonPreserving(jsonA, jsonB)>>
          /\ pageCollapsedPaths' = {}
          /\ compareMode' = "compare"
          /\ error' = NoError
     ELSE /\ error' = <<"Invalid JSON">>
          /\ UNCHANGED <<diffResult, pageCollapsedPaths, compareMode>>
  /\ UNCHANGED <<jsonA, jsonB>>

\* formatJson, the Prettify button (rendered in input mode)
formatJson ==
  /\ compareMode = "input"
  /\ lastHandler' = "formatJson"
  /\ IF JSONparse(jsonA) # <<>> /\ JSONparse(jsonB) # <<>>
     THEN /\ jsonA' = stringifyPretty(JSONparse(jsonA)[1])
          /\ jsonB' = stringifyPretty(JSONparse(jsonB)[1])
          /\ error' = NoError
     ELSE /\ error' = <<"Cannot format: Invalid JSON found.">>
          /\ UNCHANGED <<jsonA, jsonB>>
  /\ UNCHANGED <<diffResult, compareMode, pageCollapsedPaths>>

\* clearAll, the Clear button (rendered in input mode)
clearAll ==
  /\ compareMode = "input"
  /\ lastHandler' = "clearAll"
  /\ jsonA' = ""
  /\ jsonB' = ""
  /\ compareMode' = "input"
  /\ UNCHANGED <<diffResult, pageCollapsedPaths, error>>

\* The Edit button (rendered in compare mode): setMode('input')
Edit ==
  /\ compareMode = "compare"
  /\ lastHandler' = "Edit"
  /\ compareMode' = "input"
  /\ UNCHANGED <<jsonA, jsonB, diffResult, pageCollapsedPaths, error>>

\* filterByCollapsed: the loop from line idx on with the skipUntilDepth reached
RECURSIVE FilterFrom(_, _, _)
FilterFrom(lines, idx, skipUntilDepth) ==
  IF idx > Len(lines) THEN <<>>
  ELSE LET line == lines[idx] IN
       IF skipUntilDepth >= 0 /\ line.depth > skipUntilDepth
       THEN FilterFrom(lines, idx + 1, skipUntilDepth)
       ELSE IF line.isCollapsible /\ line.path # NoPath /\ line.path[1] # ""
               /\ line.path[1] \in pageCollapsedPaths
       THEN <<line>> \o FilterFrom(lines, idx + 1, line.depth)
       ELSE <<line>> \o FilterFrom(lines, idx + 1, -1)
filterByCollapsed(lines) == FilterFrom(lines, 1, -1)

\* filteredLines: what the two panels render
filteredLines ==
  IF diffResult = NoResult THEN [leftLines |-> <<>>, rightLines |-> <<>>]
  ELSE [leftLines |-> filterByCollapsed(diffResult[1].leftLines),
        rightLines |-> filterByCollapsed(diffResult[1].rightLines)]

\* LineRenderer: the paths whose toggle button is on screen (a line without
\* content renders none)
LineTogglePaths(lines) ==
  {lines[i].path[1] : i \in {j \in 1..Len(lines) :
      lines[j].content # "" /\ lines[j].isCollapsible /\ lines[j].path # NoPath
      /\ lines[j].path[1] # ""}}

\* togglePath(path), from a click on a toggle button (compare mode)
togglePath ==
  /\ compareMode = "compare"
  /\ lastHandler' = "togglePath"
  /\ \E path \in LineTogglePaths(filteredLines.leftLines)
                 \cup LineTogglePaths(filteredLines.rightLines) :
       pageCollapsedPaths' = toggled(pageCollapsedPaths, path)
  /\ UNCHANGED <<jsonA, jsonB, diffResult, compareMode, error>>

\* Mutant of handleCollapseAll: every path with a toggle is collapsed
collapseEveryPath ==
  /\ compareMode = "compare"
  /\ lastHandler' = "handleCollapseAll"
  /\ pageCollapsedPaths' = LineTogglePaths(diffResult[1].leftLines)
                           \cup LineTogglePaths(diffResult[1].rightLines)
  /\ UNCHANGED <<jsonA, jsonB, diffResult, compareMode, error>>

\* handleExpandAll (rendered in compare mode)
handleExpandAll ==
  /\ compareMode = "compare"
  /\ lastHandler' = "handleExpandAll"
  /\ pageCollapsedPaths' = {}
  /\ UNCHANGED <<jsonA, jsonB, diffResult, compareMode, error>>

\* handleCollapseAll (rendered in compare mode)
handleCollapseAll ==
  /\ compareMode = "compare"
  /\ lastHandler' = "handleCollapseAll"
  /\ pageCollapsedPaths' = {}
  /\ UNCHANGED <<jsonA, jsonB, diffResult, compareMode, error>>

\* The user leaves the Compare page for another page and comes back: App
\* keeps the texts, the diff, the mode and the collapsed paths, and the
\* ComparePage mounted anew starts with useState<string | null>(null) of error
Remount ==
  /\ lastHandler' = "Remount"
  /\ error' = NoError
  /\ UNCHANGED <<jsonA, jsonB, diffResult, compareMode, pageCollapsedPaths>>

InitPage == PageInit /\ AtRest({"page"})

NextPage ==
  /\ \/ setJsonA
     \/ setJsonB
     \/ processDiff
     \/ formatJson
     \/ clearAll
     \/ Edit
     \/ togglePath
     \/ handleExpandAll
     \/ handleCollapseAll
     \/ Remount
  /\ Untouched({"page"})

SpecPage == InitPage /\ [][NextPage]_vars

\* The Compare page in compare mode on two documents with nested objects
\* and arrays: the user compares, then collapses and expands rows
InitCollapse ==
  /\ jsonA \in {stringifyCompact(v) : v \in CollapseValues}
  /\ jsonB \in {stringifyCompact(v) : v \in CollapseValues}
  /\ diffResult = NoResult
  /\ compareMode = "input"
  /\ pageCollapsedPaths = {}
  /\ error = NoError
  /\ lastHandler = "none"
  /\ AtRest({"page"})

NextCollapse ==
  /\ \/ processDiff
     \/ togglePath
     \/ handleExpandAll
  /\ Untouched({"page"})

SpecCollapse == InitCollapse /\ [][NextCollapse]_vars

\* compareJsonPreserving as a function of two JSON texts: the left text
\* pretty-printed, the right one compact, every document of LineValues
InitLines ==
  /\ jsonA \in {stringifyPretty(v) : v \in LineValues}
  /\ jsonB \in {stringifyCompact(v) : v \in LineValues}
  /\ diffResult = NoResult
  /\ compareMode = "input"
  /\ pageCollapsedPaths = {}
  /\ error = NoError
  /\ lastHandler = "none"
  /\ AtRest({"page"})

NextLines == processDiff /\ Untouched({"page"})

SpecLines == InitLines /\ [][NextLines]_vars

----------------------------------------------------------------------------
(* JsonFormatterPage: src/src/pages/JsonFormatterPage.tsx *)

ViewModes == {"formatted", "tree", "minified", "node"}

\* parsed: success, and the data (Null when there is none)
parsed ==
  IF trim(jsonInput) = "" THEN [success |-> FALSE, data |-> Null]
  ELSE IF JSONparse(jsonInput) # <<>>
       THEN [success |-> TRUE, data |-> JSONparse(jsonInput)[1]]
       ELSE [success |-> FALSE, data |-> Null]

\* formatted: the text of the output panel
formatted ==
  IF ~parsed.success \/ ~Truthy(parsed.data) THEN ""
  ELSE CASE viewMode = "formatted" -> stringifyPretty(parsed.data)
         [] viewMode = "minified" -> stringifyCompact(parsed.data)
         [] OTHER -> ""

\* The 'Invalid JSON' banner is rendered
errorBanner == ~parsed.success /\ trim(jsonInput) # ""

\* onChange of the input text area
setJsonInput ==
  /\ \E text \in Texts : jsonInput' = text
  /\ UNCHANGED viewMode

\* onClick of a view tab
setViewMode ==
  /\ \E mode \in ViewModes : viewMode' = mode
  /\ UNCHANGED jsonInput

\* formatInput
formatInput ==
  /\ jsonInput' = IF parsed.success /\ Truthy(parsed.data)
                  THEN stringifyPretty(parsed.data) ELSE jsonInput
  /\ UNCHANGED viewMode

\* minifyInput
minifyInput ==
  /\ jsonInput' = IF parsed.success /\ Truthy(parsed.data)
                  THEN stringifyCompact(parsed.data) ELSE jsonInput
  /\ UNCHANGED viewMode

\* clearInput
clearInput ==
  /\ jsonInput' = ""
  /\ UNCHANGED viewMode

InitFormatter == FormatterInit /\ AtRest({"formatter"})

NextFormatter ==
  /\ \/ setJsonInput
     \/ setViewMode
     \/ formatInput
     \/ minifyInput
     \/ clearInput
  /\ Untouched({"formatter"})

SpecFormatter == InitFormatter /\ [][NextFormatter]_vars

----------------------------------------------------------------------------
(* Synchronized scrolling: handleScroll of DiffViewer.tsx and of the        *)
(* Compare page.  The browser queues a scroll event for a panel whenever    *)
(* its position changes, by the user or by an assignment to scrollTop or    *)
(* scrollLeft, and runs the handlers and the timers one at a time in an     *)
(* order the page does not control                                          *)

MaxScrollTop == 2
MaxScrollLeft == 1

ScrollPositions ==
  {[scrollTop |-> top, scrollLeft |-> lft] : top \in 0..MaxScrollTop, lft \in 0..MaxScrollLeft}

Other(panel) == IF panel = "left" THEN "right" ELSE "left"

\* The user scrolls a panel (wheel, scroll bar, keys)
UserScroll ==
  \E panel \in Panels, pos \in ScrollPositions :
    /\ pos # scrollPos[panel]
    /\ scrollPos' = [scrollPos EXCEPT ![panel] = pos]
    /\ scrollQueued' = scrollQueued \cup {panel}
    /\ UNCHANGED <<scrollHost, isSyncing, scrollTimers>>

\* window.setTimeout(..., 50) after the clearTimeout of DiffViewer; the
\* Compare page's handler clears nothing
timersAfterSet == IF scrollHost = "DiffViewer" THEN 1 ELSE scrollTimers + 1

\* handleScroll(source): the scroll event of the source panel is delivered
handleScroll ==
  \E source \in scrollQueued :
    LET target == Other(source)
    IN /\ IF isSyncing
          THEN /\ scrollQueued' = scrollQueued \ {source}
               /\ UNCHANGED <<scrollPos, isSyncing, scrollTimers>>
          ELSE /\ isSyncing' = TRUE
               /\ scrollPos' = [scrollPos EXCEPT ![target] = scrollPos[source]]
               /\ scrollQueued' =
                    (scrollQueued \ {source})
                    \cup (IF scrollPos[target] # scrollPos[source] THEN {target} ELSE {})
               /\ scrollTimers' = timersAfterSet
       /\ UNCHANGED scrollHost

\* The callback of the 50 ms timer
resetSyncing ==
  /\ scrollTimers > 0
  /\ scrollTimers' = scrollTimers - 1
  /\ isSyncing' = FALSE
  /\ UNCHANGED <<scrollHost, scrollPos, scrollQueued>>

InitScroll ==
  /\ scrollHost \in {"DiffViewer", "ComparePage"}
  /\ scrollPos = [panel \in Panels |-> [scrollTop |-> 0, scrollLeft |-> 0]]
  /\ scrollQueued = {}
  /\ isSyncing = FALSE
  /\ scrollTimers = 0
  /\ AtRest({"scroll"})

NextScroll ==
  /\ \/ UserScroll
     \/ handleScroll
     \/ resetSyncing
  /\ Untouched({"scroll"})

SpecScroll == InitScroll /\ [][NextScroll]_vars

----------------------------------------------------------------------------
(* SecretGamePage: the snake game, src/src/pages/SecretGamePage.tsx.  The   *)
(* key listener and the loop exist while gameState is 'playing'; a tick is  *)
(* a call of loop that passes the speed test; the difficulty sets the time  *)
(* between ticks only                                                       *)

CANVAS_SIZE == 600
GRID_SIZE == 20
TILE_COUNT == CANVAS_SIZE \div GRID_SIZE

\* The highest score a game of the model reaches
MaxScore == 10

\* The cells Math.random picks for new food
SpawnCells == {[x |-> 12, y |-> 10], [x |-> 11, y |-> 11]}

\* Number.prototype.toString and parseInt on the scores of the model
ScoreTexts ==
  {<<0, "0">>, <<10, "10">>, <<20, "20">>, <<30, "30">>,
   <<100, "100">>, <<200, "200">>, <<300, "300">>}
toString(n) == (CHOOSE p \in ScoreTexts : p[1] = n)[2]
parseInt(text) == (CHOOSE p \in ScoreTexts : p[2] = text)[1]

\* initGame, the Start and Try Again buttons
initGame ==
  /\ gameState \in {"start", "gameover"}
  /\ snakeRef' = <<[x |-> 10, y |-> 10]>>
  /\ foodRef' = [x |-> 15, y |-> 15]
  /\ dirRef' = [x |-> 1, y |-> 0]
  /\ nextDirRef' = [x |-> 1, y |-> 0]
  /\ scoreRef' = 0
  /\ gameState' = "playing"
  /\ UNCHANGED <<highScore, snakeHighscore>>

ArrowCodes == {"ArrowUp", "ArrowDown", "ArrowLeft", "ArrowRight"}

\* The direction an arrow key asks for
DirOf(code) ==
  CASE code = "ArrowUp" -> [x |-> 0, y |-> -1]
    [] code = "ArrowDown" -> [x |-> 0, y |-> 1]
    [] code = "ArrowLeft" -> [x |-> -1, y |-> 0]
    [] code = "ArrowRight" -> [x |-> 1, y |-> 0]

\* Mutant of snakeKeyDown: the key is tested against the direction asked
\* for, not the direction applied
snakeKeyDownAgainstNext ==
  /\ gameState = "playing"
  /\ \E code \in ArrowCodes :
       nextDirRef' =
         IF code \in {"ArrowUp", "ArrowDown"}
         THEN (IF nextDirRef.y = 0 THEN DirOf(code) ELSE nextDirRef)
         ELSE (IF nextDirRef.x = 0 THEN DirOf(code) ELSE nextDirRef)
  /\ UNCHANGED <<gameState, snakeRef, foodRef, dirRef, scoreRef, highScore, snakeHighscore>>

\* handleKeyDown of the game on an arrow key
snakeKeyDown ==
  /\ gameState = "playing"
  /\ \E code \in ArrowCodes :
       nextDirRef' =
         IF code \in {"ArrowUp", "ArrowDown"}
         THEN (IF dirRef.y = 0 THEN DirOf(code) ELSE nextDirRef)
         ELSE (IF dirRef.x = 0 THEN DirOf(code) ELSE nextDirRef)
  /\ UNCHANGED <<gameState, snakeRef, foodRef, dirRef, scoreRef, highScore, snakeHighscore>>

\* handleKeyDown of the game on Escape
snakePause ==
  /\ gameState = "playing"
  /\ gameState' = "paused"
  /\ UNCHANGED <<snakeRef, foodRef, dirRef, nextDirRef, scoreRef, highScore, snakeHighscore>>

\* The Resume button
snakeResume ==
  /\ gameState = "paused"
  /\ gameState' = "playing"
  /\ UNCHANGED <<snakeRef, foodRef, dirRef, nextDirRef, scoreRef, highScore, snakeHighscore>>

\* The Main Menu button
snakeMainMenu ==
  /\ gameState = "gameover"
  /\ gameState' = "start"
  /\ UNCHANGED <<snakeRef, foodRef, dirRef, nextDirRef, scoreRef, highScore, snakeHighscore>>

\* Mutant of gameOver: the score of the game is stored whatever it is
gameOverAlwaysStores ==
  /\ gameState' = "gameover"
  /\ highScore' = scoreRef
  /\ snakeHighscore' = <<toString(scoreRef)>>

\* gameOver
gameOver ==
  /\ gameState' = "gameover"
  /\ IF scoreRef > highScore
     THEN /\ highScore' = scoreRef
          /\ snakeHighscore' = <<toString(scoreRef)>>
     ELSE UNCHANGED <<highScore, snakeHighscore>>

\* loop, past the speed test: one move of the snake
snakeTick ==
  /\ gameState = "playing"
  /\ dirRef' = nextDirRef
  /\ LET head == [x |-> snakeRef[1].x + nextDirRef.x, y |-> snakeRef[1].y + nextDirRef.y]
     IN IF \/ head.x < 0 \/ head.x >= TILE_COUNT \/ head.y < 0 \/ head.y >= TILE_COUNT
           \/ \E i \in 1..Len(snakeRef) : snakeRef[i] = head
        THEN /\ gameOver
             /\ UNCHANGED <<snakeRef, foodRef, scoreRef>>
        ELSE IF head = foodRef
        THEN /\ scoreRef < MaxScore
             /\ snakeRef' = <<head>> \o snakeRef
             /\ scoreRef' = scoreRef + 10
             /\ \E newFood \in SpawnCells :
                  /\ \A i \in 1..Len(snakeRef') : snakeRef'[i] # newFood
                  /\ foodRef' = newFood
             /\ UNCHANGED <<gameState, highScore, snakeHighscore>>
        ELSE /\ snakeRef' = <<head>> \o SubSeq(snakeRef, 1, Len(snakeRef) - 1)
             /\ UNCHANGED <<gameState, foodRef, scoreRef, highScore, snakeHighscore>>
  /\ UNCHANGED nextDirRef

\* The page is left (Exit, or a navigation button) and opened again: the
\* state and the refs start anew, highScore from the stored item
snakeRemount ==
  /\ gameState' = "start"
  /\ snakeRef' = <<>>
  /\ foodRef' = [x |-> 15, y |-> 15]
  /\ dirRef' = [x |-> 0, y |-> 0]
  /\ nextDirRef' = [x |-> 0, y |-> 0]
  /\ scoreRef' = 0
  /\ highScore' = parseInt(IF snakeHighscore # <<>> THEN snakeHighscore[1] ELSE "0")
  /\ UNCHANGED snakeHighscore

InitSnake == SnakeInit /\ AtRest({"snake"})

NextSnake ==
  /\ \/ initGame
     \/ snakeKeyDown
     \/ snakePause
     \/ snakeResume
     \/ snakeMainMenu
     \/ snakeTick
     \/ snakeRemount
  /\ Untouched({"snake"})

SpecSnake == InitSnake /\ [][NextSnake]_vars

----------------------------------------------------------------------------
(* BugRunnerPage: the runner game, src/src/pages/BugRunnerPage.tsx.  Where  *)
(* the player and the obstacles are depends on the time of each frame and   *)
(* on Math.random: whether a frame has a collision or an obstacle passed    *)
(* is open to every outcome                                                 *)

\* The highest score a run of the model reaches
MaxRunnerScore == 200

\* startGame, and the effect of the 'playing' state that resets scoreRef
startGame ==
  /\ runnerState \in {"start", "gameover"}
  /\ runnerState' = "playing"
  /\ runnerScoreRef' = 0
  /\ UNCHANGED <<runnerHighScore, devgameHighscore>>

\* loop, on a frame where the player hits an obstacle
runnerCollision ==
  /\ runnerState = "playing"
  /\ runnerState' = "gameover"
  /\ LET currentScore == runnerScoreRef
     IN IF currentScore > runnerHighScore
        THEN /\ runnerHighScore' = currentScore
             /\ devgameHighscore' = <<toString(currentScore)>>
        ELSE UNCHANGED <<runnerHighScore, devgameHighscore>>
  /\ UNCHANGED runnerScoreRef

\* loop, on a frame where an obstacle has been passed
runnerPass ==
  /\ runnerState = "playing"
  /\ runnerScoreRef < MaxRunnerScore
  /\ runnerScoreRef' = runnerScoreRef + 100
  /\ UNCHANGED <<runnerState, runnerHighScore, devgameHighscore>>

\* The page is left and opened again
runnerRemount ==
  /\ runnerState' = "start"
  /\ runnerScoreRef' = 0
  /\ runnerHighScore' = parseInt(IF devgameHighscore # <<>> THEN devgameHighscore[1] ELSE "0")
  /\ UNCHANGED devgameHighscore

\* App shows one page at a time: the snake game on 'secret', the runner on
\* 'game'; going from one to the other unmounts the page left
toRunner ==
  /\ currentPage = "secret"
  /\ currentPage' = "game"
  /\ snakeRemount
  /\ UNCHANGED runnerVars

toSnake ==
  /\ currentPage = "game"
  /\ currentPage' = "secret"
  /\ runnerRemount
  /\ UNCHANGED snakeVars

InitGames ==
  /\ currentPage = "secret"
  /\ konamiIndex = 0
  /\ recentCodes = KONAMI_CODE
  /\ SnakeInit
  /\ RunnerInit
  /\ AtRest({"konami", "snake", "runner"})

NextGames ==
  /\ \/ /\ currentPage = "secret"
        /\ \/ initGame
           \/ snakeKeyDown
           \/ snakePause
           \/ snakeResume
           \/ snakeMainMenu
           \/ snakeTick
        /\ UNCHANGED <<currentPage, runnerVars>>
     \/ /\ currentPage = "game"
        /\ \/ startGame
           \/ runnerCollision
           \/ runnerPass
        /\ UNCHANGED <<currentPage, snakeVars>>
     \/ toRunner
     \/ toSnake
  /\ UNCHANGED <<konamiIndex, recentCodes>>
  /\ Untouched({"konami", "snake", "runner"})

SpecGames == InitGames /\ [][NextGames]_vars

----------------------------------------------------------------------------
(* What the claims speak of *)

Types(nodes) == [i \in 1..Len(nodes) |-> nodes[i].type]

Min(a, b) == IF a <= b THEN a ELSE b

\* The rows both sides have
Rows == 1..Min(Len(leftNodes), Len(rightNodes))

\* The rendered lines of a value, written down without the diff engine: one
\* line per primitive, an opening and a closing line around the children of
\* an object or array.
RECURSIVE Skeleton(_, _)
Skeleton(v, indent) ==
  IF v.kind = "primitive"
  THEN <<[open |-> FALSE, close |-> NoBracket, leaf |-> v, indent |-> indent]>>
  ELSE <<[open |-> TRUE, close |-> NoBracket, leaf |-> undefined, indent |-> indent]>>
       \o Flatten([i \in 1..Len(v.items) |-> Skeleton(v.items[i], indent + 1)])
       \o <<[open |-> FALSE, close |-> v.kind, leaf |-> undefined, indent |-> indent]>>

\* The line a node shows, shown being the value of the side it is on
NodeLine(node, shown) ==
  [open |-> node.isCollapsible,
   close |-> IF node.isClosingBracket THEN node.bracketType ELSE NoBracket,
   leaf |-> IF node.isCollapsible \/ node.isClosingBracket THEN undefined ELSE shown,
   indent |-> node.indent]

LeftLines(nodes) == [i \in 1..Len(nodes) |-> NodeLine(nodes[i], nodes[i].leftValue)]
RightLines(nodes) == [i \in 1..Len(nodes) |-> NodeLine(nodes[i], nodes[i].rightValue)]

\* C1: once compareJson has run, whatever the two inputs (each a JSON value
\* or absent), leftNodes and rightNodes have the same length.
C1_Alignment == compared => Len(leftNodes) = Len(rightNodes)

\* A comparison of two values of different kinds and different sizes, where
\* the shorter side had to be padded
C1_Witness ==
  /\ compared
  /\ left # undefined /\ right # undefined
  /\ sizeOf(left) < sizeOf(right)
  /\ \E i \in 1..Len(leftNodes) : leftNodes[i].type = Spacer
  /\ Len(leftNodes) = sizeOf(right)

\* The pairs of classifications a row may have
RowPairs == {<<Unchanged, Unchanged>>, <<Modified, Modified>>, <<Modified, Spacer>>,
             <<Spacer, Modified>>, <<Removed, Spacer>>, <<Spacer, Added>>}

\* C2: every row of a compareJson result has one of the six pairs of
\* classifications of RowPairs: never Spacer on both sides, never Added on
\* the left, never Removed on the right.
C2_RowConsistency ==
  compared => \A i \in Rows : <<leftNodes[i].type, rightNodes[i].type>> \in RowPairs

\* A result with a row Modified against Spacer and a row Spacer against Added
C2_Witness ==
  /\ compared
  /\ \E i \in Rows : <<leftNodes[i].type, rightNodes[i].type>> = <<Modified, Spacer>>
  /\ \E i \in Rows : <<leftNodes[i].type, rightNodes[i].type>> = <<Spacer, Added>>
  /\ \E i \in Rows : <<leftNodes[i].type, rightNodes[i].type>> = <<Unchanged, Unchanged>>

\* C3: compareJson(V, V) yields only Unchanged nodes on both sides, and both
\* sequences have sizeOf(V) nodes.
C3_Reflexivity ==
  (compared /\ left = right /\ left # undefined) =>
     /\ Len(leftNodes) = sizeOf(left)
     /\ Len(rightNodes) = sizeOf(left)
     /\ \A i \in 1..Len(leftNodes) : leftNodes[i].type = Unchanged
     /\ \A i \in 1..Len(rightNodes) : rightNodes[i].type = Unchanged

\* A nested value compared with itself
C3_Witness ==
  /\ compared
  /\ left = right
  /\ left.kind \in {"object", "array"}
  /\ \E i \in 1..Len(left.items) :
        left.items[i].kind \in {"object", "array"} /\ left.items[i].items # <<>>
  /\ Len(leftNodes) = 5

\* Removed and Added exchanged
Swap(t) == CASE t = Removed -> Added [] t = Added -> Removed [] OTHER -> t
Swapped(ts) == [i \in 1..Len(ts) |-> Swap(ts[i])]

\* How many rows of ts have classification t
Count(ts, t) == Cardinality({i \in 1..Len(ts) : ts[i] = t})

\* getAlignedKeys gives the same order for both argument orders at every pair
\* of objects that compareJson walks key by key
RECURSIVE SameAlignment(_, _)
SameAlignment(a, b) ==
  CASE a = undefined \/ b = undefined -> TRUE
    [] isEqual(a, b) -> TRUE
    [] a.kind = "object" /\ b.kind = "object" ->
         /\ a.keys \o SelectSeq(b.keys, LAMBDA k : k \notin Range(a.keys))
              = b.keys \o SelectSeq(a.keys, LAMBDA k : k \notin Range(b.keys))
         /\ \A k \in Range(a.keys) \cup Range(b.keys) : SameAlignment(Get(a, k), Get(b, k))
    [] a.kind = "array" /\ b.kind = "array" ->
         \A i \in 0..(Max(Len(a.items), Len(b.items)) - 1) :
            SameAlignment(At(a, i), At(b, i))
    [] OTHER -> TRUE

\* The right output of the comparison with the arguments swapped
SwappedRun == compareJson(right, left, "", 0, NoKey, FALSE, NoIndex)

C5_OneSideAbsent ==
  /\ (compared /\ left = undefined /\ right # undefined) =>
        /\ RightLines(rightNodes) = Skeleton(right, 0)
        /\ \A i \in 1..Len(rightNodes) :
              /\ rightNodes[i].type = Added
              /\ rightNodes[i].rightValue # undefined
              /\ rightNodes[i].leftValue = undefined
        /\ Len(leftNodes) = Len(rightNodes)
        /\ \A i \in 1..Len(leftNodes) :
              leftNodes[i].type = Spacer /\ leftNodes[i].path = ""
  /\ (compared /\ left # undefined /\ right = undefined) =>
        /\ LeftLines(leftNodes) = Skeleton(left, 0)
        /\ \A i \in 1..Len(leftNodes) :
              /\ leftNodes[i].type = Removed
              /\ leftNodes[i].leftValue # undefined
              /\ leftNodes[i].rightValue = undefined
        /\ Len(rightNodes) = Len(leftNodes)
        /\ \A i \in 1..Len(rightNodes) :
              rightNodes[i].type = Spacer /\ rightNodes[i].path = ""

\* A nested right value against an absent left value
C5_Witness ==
  /\ compared
  /\ left = undefined
  /\ right.kind = "object"
  /\ \E i \in 1..Len(right.items) :
        right.items[i].kind = "array" /\ right.items[i].items # <<>>
  /\ Len(rightNodes) = 5
  /\ rightNodes[2].rightValue = Str("[")

\* The row numbers of the result, in order
RowSeq == [i \in 1..Len(leftNodes) |-> i]

\* Row i starts the lines of a key of the root object: one side shows, one
\* level in, a node that carries a key
IsKeyHead(i) ==
  \/ leftNodes[i].indent = 1 /\ leftNodes[i].key # NoKey
  \/ rightNodes[i].indent = 1 /\ rightNodes[i].key # NoKey
KeyHeads == SelectSeq(RowSeq, IsKeyHead)
RowKey(i) == IF leftNodes[i].key # NoKey THEN leftNodes[i].key[1] ELSE rightNodes[i].key[1]

\* The last row of the lines that start at the j-th of heads, the last row
\* of all being the closing bracket of the root
BlockEnd(heads, j) == IF j < Len(heads) THEN heads[j + 1] - 1 ELSE Len(leftNodes) - 1

\* C6 as stated: with both values objects, the keys come between the opening and the
\* closing brace in the order: the keys of the left object in its order, then
\* the keys only the right object has in its order; the lines of a left-only
\* key are Removed against Spacer, those of a right-only key Spacer against
\* Added; and the keys the left output shows are the left object's, in order.
C6_AlignedKeyOrder ==
  (compared /\ left.kind = "object" /\ right.kind = "object") =>
     LET heads == KeyHeads
         expected == left.keys \o SelectSeq(right.keys, LAMBDA k : k \notin Range(left.keys))
         shown == SelectSeq(leftNodes, LAMBDA n : n.indent = 1 /\ n.key # NoKey)
     IN /\ Len(leftNodes) = Len(rightNodes)
        /\ leftNodes[1].isCollapsible /\ rightNodes[1].isCollapsible
        /\ leftNodes[Len(leftNodes)].isClosingBracket
        /\ leftNodes[Len(leftNodes)].bracketType = "object"
        /\ rightNodes[Len(rightNodes)].isClosingBracket
        /\ rightNodes[Len(rightNodes)].bracketType = "object"
        /\ [j \in 1..Len(heads) |-> RowKey(heads[j])] = expected
        /\ \A j \in 1..Len(heads) : \A i \in heads[j]..BlockEnd(heads, j) :
              /\ expected[j] \notin Range(right.keys) =>
                    leftNodes[i].type = Removed /\ rightNodes[i].type = Spacer
              /\ expected[j] \notin Range(left.keys) =>
                    leftNodes[i].type = Spacer /\ rightNodes[i].type = Added
        /\ [j \in 1..Len(shown) |-> shown[j].key[1]] = left.keys

\* The statement of C6 does hold of two objects none of whose keys is a name
\* inherited from Object.prototype: what breaks it is the lookup obj[k] alone.
C6_AmongOwnNames ==
  (Range(left.keys) \cup Range(right.keys)) \cap InheritedKeys = {} => C6_AlignedKeyOrder

\* Two objects, the left with a key the right lacks, the right with a key the
\* left lacks, the left-only key holding a container
C6_Witness ==
  /\ compared
  /\ left.kind = "object" /\ right.kind = "object"
  /\ \E k \in Range(left.keys) : k \notin Range(right.keys) /\ Get(left, k).kind = "array"
  /\ \E k \in Range(right.keys) : k \notin Range(left.keys)
  /\ Len(KeyHeads) = 2
  /\ leftNodes[2].type = Removed /\ leftNodes[3].type = Removed
  /\ rightNodes[4].type = Added

\* Two objects with the same keys in another order and another value
C6_WitnessReordered ==
  /\ compared
  /\ left.kind = "object" /\ right.kind = "object"
  /\ Len(left.keys) = 2
  /\ right.keys = <<left.keys[2], left.keys[1]>>
  /\ ~isEqual(left, right)

\* Row i starts the lines of an element of the root array
IsItemHead(i) ==
  \/ leftNodes[i].indent = 1 /\ leftNodes[i].isArrayItem
  \/ rightNodes[i].indent = 1 /\ rightNodes[i].isArrayItem
ItemHeads == SelectSeq(RowSeq, IsItemHead)

\* compareJson([1,2,3], [0,1,2,3])
PositionalExample ==
  compareJson(Arr(<<Num("1"), Num("2"), Num("3")>>),
              Arr(<<Num("0"), Num("1"), Num("2"), Num("3")>>),
              "", 0, NoKey, FALSE, NoIndex)

\* C7: with both values arrays that are not deep-equal, the result has one
\* group of lines per index below max(leftLen, rightLen), in index order;
\* element i of the left meets element i of the right and no other: two
\* primitives at an index are Unchanged when equal and Modified on both sides,
\* each with its own value, when not; the lines of an index past the end of
\* the left array are Spacer against Added, those of an index past the end of
\* the right array Removed against Spacer; [1,2,3] against [0,1,2,3] gives
\* Modified, Modified, Modified, Added.
C7_PositionalArrays ==
  /\ (compared /\ left.kind = "array" /\ right.kind = "array" /\ ~isEqual(left, right)) =>
       LET heads == ItemHeads
           leftLen == Len(left.items)
           rightLen == Len(right.items)
       IN /\ Len(leftNodes) = Len(rightNodes)
          /\ Len(heads) = Max(leftLen, rightLen)
          /\ \A j \in 1..Len(heads) :
                LET h == heads[j] IN
                /\ j <= leftLen => leftNodes[h].arrayIndex = j - 1
                /\ j <= rightLen => rightNodes[h].arrayIndex = j - 1
                /\ (j <= leftLen /\ j <= rightLen
                      /\ left.items[j].kind = "primitive"
                      /\ right.items[j].kind = "primitive") =>
                      /\ BlockEnd(heads, j) = h
                      /\ leftNodes[h].leftValue = left.items[j]
                      /\ rightNodes[h].rightValue = right.items[j]
                      /\ IF left.items[j] = right.items[j]
                         THEN leftNodes[h].type = Unchanged /\ rightNodes[h].type = Unchanged
                         ELSE leftNodes[h].type = Modified /\ rightNodes[h].type = Modified
                /\ j > leftLen => \A i \in h..BlockEnd(heads, j) :
                      leftNodes[i].type = Spacer /\ rightNodes[i].type = Added
                /\ j > rightLen => \A i \in h..BlockEnd(heads, j) :
                      leftNodes[i].type = Removed /\ rightNodes[i].type = Spacer
  /\ Types(PositionalExample.leftNodes)
       = <<Unchanged, Modified, Modified, Modified, Spacer, Unchanged>>
  /\ Types(PositionalExample.rightNodes)
       = <<Unchanged, Modified, Modified, Modified, Added, Unchanged>>

\* A left array one element longer than the right, with unequal primitives
\* at the first index: Modified, then Removed against Spacer
C7_Witness ==
  /\ compared
  /\ left.kind = "array" /\ right.kind = "array"
  /\ Len(left.items) = 2 /\ Len(right.items) = 1
  /\ left.items[1].kind = "primitive" /\ right.items[1].kind = "primitive"
  /\ left.items[1] # right.items[1]
  /\ left.items[2] = right.items[1]
  /\ Types(leftNodes) = <<Unchanged, Modified, Removed, Unchanged>>
  /\ Types(rightNodes) = <<Unchanged, Modified, Spacer, Unchanged>>

\* C8: with both values present and of different kinds among object, array
\* and primitive, each side is the materialised subtree of its own value,
\* every node Modified, followed by Spacer nodes up to the length of the
\* longer subtree.
C8_TypeMismatch ==
  (compared /\ left # undefined /\ right # undefined /\ left.kind # right.kind) =>
     LET n == Max(sizeOf(left), sizeOf(right)) IN
     /\ Len(leftNodes) = n
     /\ Len(rightNodes) = n
     /\ LeftLines(SubSeq(leftNodes, 1, sizeOf(left))) = Skeleton(left, 0)
     /\ RightLines(SubSeq(rightNodes, 1, sizeOf(right))) = Skeleton(right, 0)
     /\ \A i \in 1..n :
           /\ leftNodes[i].type = IF i <= sizeOf(left) THEN Modified ELSE Spacer
           /\ rightNodes[i].type = IF i <= sizeOf(right) THEN Modified ELSE Spacer

\* An object against a shorter array: the right side ends in Spacer nodes
C8_Witness ==
  /\ compared
  /\ left.kind = "object" /\ right.kind = "array"
  /\ sizeOf(left) = 5 /\ sizeOf(right) = 3
  /\ Types(rightNodes) = <<Modified, Modified, Modified, Spacer, Spacer>>
  /\ \A i \in 1..Len(leftNodes) : leftNodes[i].type = Modified

\* C9: two primitives that are not equal, of the same JSON type or not, give
\* one node per side, both Modified, the left holding the left value in
\* leftValue and nothing in rightValue, the right holding the right value in
\* rightValue and nothing in leftValue.
C9_UnequalPrimitives ==
  (compared /\ left.kind = "primitive" /\ right.kind = "primitive" /\ left # right) =>
     /\ Len(leftNodes) = 1
     /\ Len(rightNodes) = 1
     /\ leftNodes[1].type = Modified
     /\ rightNodes[1].type = Modified
     /\ leftNodes[1].leftValue = left
     /\ leftNodes[1].rightValue = undefined
     /\ rightNodes[1].rightValue = right
     /\ rightNodes[1].leftValue = undefined

\* The number 1 against the string "1"
C9_Witness ==
  /\ compared
  /\ left = Num("1")
  /\ right = Str("1")
  /\ Len(leftNodes) = 1
  /\ leftNodes[1].type = Modified

\* C10 as stated: every node that opens an object or array carries the marker
\* '{' or '[' as the value of the side it is shown on, whatever its
\* classification.
C10_StructuralMarker ==
  compared =>
     /\ \A i \in 1..Len(leftNodes) : leftNodes[i].isCollapsible =>
           leftNodes[i].leftValue \in {Str("{"), Str("[")}
     /\ \A i \in 1..Len(rightNodes) : rightNodes[i].isCollapsible =>
           rightNodes[i].rightValue \in {Str("{"), Str("[")}

\* A node that stands for a position of the document: neither a spacer nor
\* a closing bracket
IsPosition(node) == node.type # Spacer /\ ~node.isClosingBracket

UniquePaths(nodes) ==
  \A i, j \in 1..Len(nodes) :
    (i # j /\ IsPosition(nodes[i]) /\ IsPosition(nodes[j])) => nodes[i].path # nodes[j].path

\* C11: within one output sequence no two distinct nodes that are neither
\* spacers nor closing brackets share a path, whatever strings the keys are
\* (the empty key and keys containing '.' or '[' included)
C11_PathUniqueness == compared => (UniquePaths(leftNodes) /\ UniquePaths(rightNodes))

DiffTypes == {Added, Removed, Modified, Unchanged, Spacer}

WellFormed(nodes) ==
  \A i \in 1..Len(nodes) : nodes[i].type \in DiffTypes /\ nodes[i].indent >= 0

IsBracket(line) == line.open \/ line.close # NoBracket
BracketLines(lines) ==
  LET brackets == SelectSeq(lines, IsBracket)
  IN [i \in 1..Len(brackets) |->
        [open |-> brackets[i].open, close |-> brackets[i].close,
         indent |-> brackets[i].indent]]

\* The bracket lines a value has of itself (none when it is absent)
ValueBrackets(v) == IF v = undefined THEN <<>> ELSE BracketLines(Skeleton(v, 0))

\* The closing bracket that answers the opening node at i: the first
\* closing bracket after i at the same indent (0 when there is none)
MatchingClose(nodes, i) ==
  LET later == {j \in (i + 1)..Len(nodes) :
                  nodes[j].isClosingBracket /\ nodes[j].indent = nodes[i].indent}
  IN IF later = {} THEN 0 ELSE CHOOSE j \in later : \A k \in later : j <= k

Openers(nodes) == {i \in 1..Len(nodes) : nodes[i].isCollapsible}

BracketStructure(nodes, v) ==
  /\ BracketLines(LeftLines(nodes)) = ValueBrackets(v)
  /\ \A i \in Openers(nodes) :
       LET j == MatchingClose(nodes, i) IN
       /\ j # 0
       /\ ~nodes[j].isCollapsible
       /\ nodes[j].path = nodes[i].path
       /\ nodes[j].bracketType \in {"object", "array"}
       /\ Cardinality({k \in (i + 1)..Len(nodes) :
              /\ nodes[k].isClosingBracket
              /\ nodes[k].path = nodes[i].path
              /\ nodes[k].indent = nodes[i].indent}) = 1
       /\ \A k \in (i + 1)..(j - 1) :
              nodes[k].type = Spacer \/ nodes[k].indent > nodes[i].indent
       /\ \A h \in Openers(nodes) :
              i < h => (MatchingClose(nodes, h) < j \/ j < h)
  /\ \A j \in 1..Len(nodes) : nodes[j].isClosingBracket =>
       \E i \in Openers(nodes) : MatchingClose(nodes, i) = j

CollapsedOpeners(nodes) == {i \in Openers(nodes) : nodes[i].path \in collapsedPaths}

\* The nodes the collapse filter is to drop: those strictly between a
\* collapsed opening node and its closing bracket, and that closing bracket
Hidden(nodes) ==
  {k \in 1..Len(nodes) : \E i \in CollapsedOpeners(nodes) :
      i < k /\ k <= MatchingClose(nodes, i)}

\* The nodes outside Hidden, in order
Visible(nodes) ==
  LET RECURSIVE from(_)
      from(k) == IF k > Len(nodes) THEN <<>>
                 ELSE (IF k \in Hidden(nodes) THEN <<>> ELSE <<nodes[k]>>) \o from(k + 1)
  IN from(1)

\* C13: filterNodes drops every node strictly inside the subtree of a
\* collapsed node (the children of a collapsed root node, whose path is
\* empty, included) and the closing bracket of each collapsed node, and
\* keeps every other node in its order
C13_CollapseFilter ==
  compared => (filteredLeftNodes = Visible(leftNodes) /\ filteredRightNodes = Visible(rightNodes))

\* The same for collapsed paths other than the root's, leaving spacers aside
NoSpacers(nodes) == SelectSeq(nodes, LAMBDA node : node.type # Spacer)
C13_BelowRootNoSpacers ==
  (compared /\ "" \notin collapsedPaths) =>
     /\ NoSpacers(filteredLeftNodes) = NoSpacers(Visible(leftNodes))
     /\ NoSpacers(filteredRightNodes) = NoSpacers(Visible(rightNodes))

\* C15: whenever the ten most recent keydown codes are KONAMI_CODE, the
\* key that completed them switches the app to the 'secret' page, whatever
\* keys were pressed before
C15_KonamiCode ==
  [][(recentCodes' = KONAMI_CODE /\ recentCodes' # recentCodes) => currentPage' = "secret"]_vars

\* The same when the code is entered from the start or right after a key
\* that is not ArrowUp
C15_FromAFreshStart ==
  [][(recentCodes' = KONAMI_CODE /\ recentCodes' # recentCodes /\ konamiIndex = Len(KONAMI_CODE) - 1)
       => currentPage' = "secret"]_vars

\* C17: the confetti fires exactly on the fifth click of a run of clicks
\* each at most 500 ms after the previous one; the counter restarts from
\* zero after the confetti and after any gap longer than 500 ms (so it is
\* the number of clicks of the run so far), and it is between 0 and 4 once
\* a click has been handled
C17_PartyMode ==
  /\ clickCount \in 0..(PartyClicks - 1)
  /\ confettiFired <=> runLength = PartyClicks
  /\ clickCount = runLength % PartyClicks

\* The fifth click of a run has just fired the confetti and reset the counter
C17_Witness == confettiFired /\ runLength = PartyClicks /\ clickCount = 0 /\ lastClickTime = now

\* C14: when either text is not valid JSON, pressing Compare sets an error
\* message and leaves diffResult, the mode and the collapsed paths as they
\* were
C14_ParseErrorOnCompare ==
  [][(lastHandler' = "processDiff" /\ (JSONparse(jsonA) = <<>> \/ JSONparse(jsonB) = <<>>))
       => /\ error' # NoError
          /\ diffResult' = diffResult
          /\ compareMode' = compareMode
          /\ pageCollapsedPaths' = pageCollapsedPaths]_vars

\* Compare was pressed on a text that is not JSON, after an earlier
\* comparison of which paths were collapsed
C14_Witness ==
  /\ lastHandler = "processDiff"
  /\ JSONparse(jsonA) = <<>>
  /\ error # NoError
  /\ diffResult # NoResult
  /\ pageCollapsedPaths # {}
  /\ compareMode = "input"

\* C18: 'collapse all' does what 'expand all' does: after either the set of
\* collapsed paths is empty
C18_CollapseAllIsExpandAll ==
  lastHandler \in {"handleCollapseAll", "handleExpandAll"} => pageCollapsedPaths = {}

\* 'Collapse all' has been pressed on a diff that has lines to collapse
C18_Witness ==
  /\ lastHandler = "handleCollapseAll"
  /\ pageCollapsedPaths = {}
  /\ LineTogglePaths(diffResult[1].leftLines) # {}

\* The statuses of the rows of a line diff
Statuses(lines) == {lines[i].status : i \in 1..Len(lines)}

LineAlignment(result) ==
  /\ Len(result.leftLines) = Len(result.rightLines)
  /\ \A i \in 1..Len(result.leftLines) :
       LET l == result.leftLines[i]
           r == result.rightLines[i]
       IN /\ l.status = r.status
          /\ l.status \in {"unchanged", "added", "removed", "modified"}
          /\ l.lineNum = i /\ r.lineNum = i
          /\ l.status = "added" => (l.content = "" /\ r.content # "")
          /\ l.status = "removed" => (r.content = "" /\ l.content # "")
          /\ l.status \in {"unchanged", "modified"} => (l.content # "" /\ r.content # "")

\* C20: for any two valid JSON texts compareJsonPreserving returns
\* leftLines and rightLines of equal length; the rows have the same status
\* on both sides and are numbered 1, 2, ... in order (the row at index i of
\* the arrays has lineNum i + 1); an added row has empty content on the
\* left, a removed row on the right, an unchanged or modified row has
\* content on both sides
C20_LineDiffAlignment ==
  (diffResult # NoResult /\ lastHandler = "processDiff") => LineAlignment(diffResult[1])

\* A line diff with rows of all four statuses
C20_Witness ==
  /\ diffResult # NoResult
  /\ Statuses(diffResult[1].leftLines) = {"unchanged", "added", "removed", "modified"}

\* The output the formatter page owes a valid text in the view shown
FormatterOutput(value) ==
  /\ viewMode = "formatted" => formatted = stringifyPretty(value)
  /\ viewMode = "minified" => formatted = stringifyCompact(value)

\* C16: for every valid JSON text the formatter page shows the 2-space
\* pretty-printed text in Formatted view and the compact text in Minified
\* view, and the 'Invalid JSON' banner is shown exactly when the input is
\* not blank and is not valid JSON
C16_FormatterValidation ==
  /\ JSONparse(jsonInput) # <<>> => FormatterOutput(JSONparse(jsonInput)[1])
  /\ errorBanner <=> (trim(jsonInput) # "" /\ JSONparse(jsonInput) = <<>>)

\* The same for the texts of values other than 0, "", false and null
C16_TruthyDocuments ==
  /\ (JSONparse(jsonInput) # <<>> /\ Truthy(JSONparse(jsonInput)[1]))
       => FormatterOutput(JSONparse(jsonInput)[1])
  /\ errorBanner <=> (trim(jsonInput) # "" /\ JSONparse(jsonInput) = <<>>)

\* No scroll event is queued and no reset timer is pending
ScrollSettled == scrollQueued = {} /\ scrollTimers = 0

\* C21: once every scroll handler has run and every pending reset timer has
\* fired, both panels have the same scrollTop and scrollLeft and the syncing
\* flag is false
C21_ScrollSynchronisation ==
  ScrollSettled => (scrollPos["left"] = scrollPos["right"] /\ ~isSyncing)

\* What does hold once everything has settled: the flag is false; and at no
\* time is more than one reset timer pending
C21_FlagReset == (ScrollSettled => ~isSyncing) /\ scrollTimers <= 1

\* The leading spaces of a line, and whether it opens or closes a bracket
Indent(content) == AfterSpaces(content, 1) - 1
IsOpeningLine(content) ==
  content # "" /\ CharAt(content, Len(content)) \in {"{", "["}
IsClosingLine(content) ==
  content # "" /\ CharAt(content, AfterSpaces(content, 1)) \in {"}", "]"}

\* The closing line of the opening line at row i: the next line of content
\* with the same indentation that closes a bracket
ClosingRow(lines, i) ==
  LET at == {j \in (i + 1)..Len(lines) :
               /\ IsClosingLine(lines[j].content)
               /\ Indent(lines[j].content) = Indent(lines[i].content)}
  IN CHOOSE j \in at : \A k \in at : j <= k

\* The rows nested inside the opening line at row i
NestedRows(lines, i) == (i + 1)..ClosingRow(lines, i)

\* The opening lines of a side whose collapse control toggles path
RowsToggling(lines, path) ==
  {i \in 1..Len(lines) :
     /\ IsOpeningLine(lines[i].content)
     /\ lines[i].isCollapsible
     /\ lines[i].path = <<path>>}

ShownRows(lines) == {lines[k].lineNum : k \in 1..Len(lines)}

\* From everything expanded, path has been collapsed: whichever opening line
\* of this side the click was on, the rows shown are all but those nested
\* inside that line
CollapsesOneRow(all, shown, path) ==
  \A i \in RowsToggling(all, path) :
    ShownRows(shown) = (1..Len(all)) \ NestedRows(all, i)

\* C22: on the Compare page, collapsing one opening line of an object or an
\* array (an object that is an element of an array included) keeps that row
\* visible, hides exactly the following rows of that side up to and
\* including its closing line, and leaves every other row visible
C22_CollapseOneLine ==
  (compareMode = "compare" /\ Cardinality(pageCollapsedPaths) = 1) =>
    \A path \in pageCollapsedPaths :
      /\ CollapsesOneRow(diffResult[1].leftLines, filteredLines.leftLines, path)
      /\ CollapsesOneRow(diffResult[1].rightLines, filteredLines.rightLines, path)

\* A side all of whose rows have content
NoBlankRows(lines) == \A i \in 1..Len(lines) : lines[i].content # ""

\* The same for a side without blank rows where the path collapsed belongs
\* to one opening line only (the line of a key, or the root)
C22_OneLinePerPath ==
  (compareMode = "compare" /\ Cardinality(pageCollapsedPaths) = 1) =>
    \A path \in pageCollapsedPaths :
      /\ (NoBlankRows(diffResult[1].leftLines)
          /\ Cardinality(RowsToggling(diffResult[1].leftLines, path)) = 1)
           => CollapsesOneRow(diffResult[1].leftLines, filteredLines.leftLines, path)
      /\ (NoBlankRows(diffResult[1].rightLines)
          /\ Cardinality(RowsToggling(diffResult[1].rightLines, path)) = 1)
           => CollapsesOneRow(diffResult[1].rightLines, filteredLines.rightLines, path)

\* The paths whose collapse control is on the Compare page's screen
PagePathsOnScreen ==
  LineTogglePaths(filteredLines.leftLines) \cup LineTogglePaths(filteredLines.rightLines)

\* From before to after, path has changed sides and no other path has
ToggledOnly(before, after, path) ==
  /\ path \notin before => path \in after
  /\ path \in before => path \notin after
  /\ \A other \in (before \cup after \cup PagePathsOnScreen) \ {path} :
       other \in before <=> other \in after

\* C23: a toggle of path p adds p to the collapsed paths when it is absent
\* and removes it when present, changes the membership of no other path,
\* and a second toggle of p right after restores the set exactly
C23_ToggleInvolution ==
  [][(lastHandler' = "togglePath" /\ compareMode = "compare")
       => \E path \in PagePathsOnScreen :
            /\ pageCollapsedPaths' = toggled(pageCollapsedPaths, path)
            /\ ToggledOnly(pageCollapsedPaths, pageCollapsedPaths', path)
            /\ toggled(pageCollapsedPaths', path) = pageCollapsedPaths]_vars

\* A toggle has run, one path is collapsed and the control of another path
\* is on screen
C23_Witness ==
  /\ lastHandler = "togglePath"
  /\ Cardinality(pageCollapsedPaths) = 1
  /\ Cardinality(PagePathsOnScreen) >= 2

\* The same of the structural viewer's handleToggleCollapse
C23_ViewerToggle ==
  [][(compared /\ collapsedPaths' # collapsedPaths)
       => \E path \in TogglePaths :
            /\ collapsedPaths' = toggled(collapsedPaths, path)
            /\ path \in collapsedPaths <=> path \notin collapsedPaths'
            /\ \A other \in (collapsedPaths \cup collapsedPaths') \ {path} :
                 other \in collapsedPaths <=> other \in collapsedPaths'
            /\ toggled(collapsedPaths', path) = collapsedPaths]_vars

\* The nodes of a sequence, each with the row it has in the sequence
WithRows(nodes) == [i \in 1..Len(nodes) |-> nodes[i] @@ [row |-> i]]

\* The rows of the unfiltered result that filterNodes keeps, in order
RowsKept(nodes) ==
  LET kept == filterNodes(WithRows(nodes))
  IN [k \in 1..Len(kept) |-> kept[k].row]

\* C24: for every compareJson result and every set of collapsed paths reached
\* by toggling, filterNodes yields two sequences of equal length whose rows
\* i are the same row of the unfiltered result
C24_AlignmentSurvivesCollapse ==
  compared =>
    /\ Len(filteredLeftNodes) = Len(filteredRightNodes)
    /\ RowsKept(leftNodes) = RowsKept(rightNodes)


\* The same for results without spacers (no key or item on one side only)
C24_WithoutSpacers ==
  (compared /\ NoSpacers(leftNodes) = leftNodes /\ NoSpacers(rightNodes) = rightNodes)
    => RowsKept(leftNodes) = RowsKept(rightNodes)

\* The contents of the rows that have content, in order
Contents(lines) ==
  LET rows == SelectSeq(lines, LAMBDA line : line.content # "")
  IN [k \in 1..Len(rows) |-> rows[k].content]

\* The lines of the 2-space pretty-printed document of a valid text
PrettyLines(text) == SplitLines(stringifyPretty(JSONparse(text)[1]))

\* C25: for any two valid JSON texts compareJsonPreserving returns, and the
\* rows of leftLines with content are, in order and each once, the lines of
\* the pretty-printed left document; the rows of rightLines with content
\* are those of the pretty-printed right document
C25_ContentPreservation ==
  (diffResult # NoResult /\ lastHandler = "processDiff" /\ error = NoError) =>
    /\ Contents(diffResult[1].leftLines) = PrettyLines(jsonA)
    /\ Contents(diffResult[1].rightLines) = PrettyLines(jsonB)

\* A line diff of two different documents with blank rows on both sides
C25_Witness ==
  /\ diffResult # NoResult
  /\ lastHandler = "processDiff"
  /\ \E i \in 1..Len(diffResult[1].leftLines) : diffResult[1].leftLines[i].content = ""
  /\ \E i \in 1..Len(diffResult[1].rightLines) : diffResult[1].rightLines[i].content = ""
  /\ Len(PrettyLines(jsonA)) # Len(PrettyLines(jsonB))

\* The line numbers of the rows of a side, in order
LineNums(lines) == [k \in 1..Len(lines) |-> lines[k].lineNum]

\* C26: for every line diff and every set of collapsed paths reached by
\* toggling rows, the filtered left rows and the filtered right rows have
\* the same length and row i has the same lineNum on both sides
C26_PageAlignmentSurvivesCollapse ==
  compareMode = "compare" =>
    /\ Len(filteredLines.leftLines) = Len(filteredLines.rightLines)
    /\ LineNums(filteredLines.leftLines) = LineNums(filteredLines.rightLines)

\* The same when the two documents are the same
C26_EqualDocuments ==
  (compareMode = "compare" /\ JSONparse(jsonA) = JSONparse(jsonB)) =>
    LineNums(filteredLines.leftLines) = LineNums(filteredLines.rightLines)

\* C27: after any sequence of actions on the Compare page (edits of either
\* text, Prettify, Clear, Compare, Edit, toggles, expand and collapse all,
\* leaving the page and coming back), whenever the mode is 'compare' the
\* stored diffResult is not null and is compareJsonPreserving of the two
\* texts as they are, and the error message is null
C27_NoStaleDiff ==
  compareMode = "compare" =>
    /\ diffResult # NoResult
    /\ diffResult[1] = compareJsonPreserving(jsonA, jsonB)
    /\ error = NoError

\* A second comparison, of texts that were edited after the first, seen
\* after leaving the page and coming back
C27_Witness ==
  /\ compareMode = "compare"
  /\ lastHandler = "Remount"
  /\ pageCollapsedPaths # {}
  /\ jsonA # DefaultJsonA
  /\ jsonB # DefaultJsonB
  /\ jsonA # jsonB

\* The step is the keydown that completes KONAMI_CODE: the nine codes before
\* it began the sequence and the ten latest codes are the sequence
CompletesKonamiCode ==
  /\ recentCodes = SubSeq(KONAMI_CODE, 1, Len(KONAMI_CODE) - 1)
  /\ recentCodes' = KONAMI_CODE

\* C28: the page becomes 'secret' only by the keydown that completes the
\* ten-key sequence, no navigation button or other action sets it; and the
\* page becomes 'game' only by the About page's game button
C28_SecretOnlyByKeys ==
  [][/\ (currentPage' = "secret" /\ currentPage # "secret") => CompletesKonamiCode
     /\ (currentPage' = "game" /\ currentPage # "game") => currentPage = "about"]_vars

\* The secret page, entered by the sequence
C28_Witness == currentPage = "secret" /\ recentCodes = KONAMI_CODE

\* The exact opposite of a direction
Opposite(dir) == [x |-> 0 - dir.x, y |-> 0 - dir.y]

\* C29: in the snake game, for any interleaving of arrow keys and ticks
\* (several keys between two ticks, and a pause followed by a resume,
\* included), the direction a tick applies is never the exact opposite of
\* the direction the tick before applied
C29_SnakeNeverReverses ==
  [][(gameState = "playing" /\ dirRef' # dirRef) => dirRef' # Opposite(dirRef)]_vars

\* While the game runs the direction asked for is never the opposite of the
\* direction applied
C29_NextDirNotOpposite ==
  gameState \in {"playing", "paused"} => nextDirRef # Opposite(dirRef)

\* The snake moves left, the opposite of the direction it started with, and
\* a key has asked for a turn since the last tick
C29_Witness ==
  /\ gameState = "playing"
  /\ dirRef = [x |-> -1, y |-> 0]
  /\ nextDirRef # dirRef

\* The item of localStorage is the text of the score
Stored(item, score) == item = <<toString(score)>>

\* C30: in both games, over any sequence of games, the highScore state
\* never decreases, after every game over it is at least the score of the
\* game just finished, and the value written to localStorage is the
\* highScore state of the moment it is written
C30_HighScoreRunningMax ==
  [][/\ highScore' >= highScore
     /\ runnerHighScore' >= runnerHighScore
     /\ gameState' = "gameover" => highScore' >= scoreRef'
     /\ runnerState' = "gameover" => runnerHighScore' >= runnerScoreRef'
     /\ snakeHighscore' # snakeHighscore => Stored(snakeHighscore', highScore')
     /\ devgameHighscore' # devgameHighscore => Stored(devgameHighscore', runnerHighScore')]_vars

\* Both games have a stored high score above 0, and a snake game has ended
\* with a score below the high score
C30_Witness ==
  /\ highScore > 0
  /\ runnerHighScore > 0
  /\ devgameHighscore # <<>>
  /\ gameState = "gameover"
  /\ scoreRef < highScore

====
